---- MODULE Spec2Model ----
(***************************************************************************)
(* The three analyzer classes of nba_analysis (ShotChartAnalyzer,          *)
(* PlayerStatsAnalyzer, TeamStatsAnalyzer) as a state machine, the demo    *)
(* program example.py that drives them, and the two scripts that share a   *)
(* scratch file (grab_today_games.py writes it, NBA_API.py reads it).      *)
(*                                                                         *)
(* State: the attributes of one instance of each class, and `last`, the    *)
(* observation of the latest completed method call (its arguments, how it  *)
(* ended, what it returned, which remote endpoint requests it issued).     *)
(* Every method is an operator from (self, arguments, what the remote      *)
(* service answers) to a Result; every action is one whole method call.    *)
(*                                                                         *)
(* Python values that can be None are boxed records carrying their type,   *)
(* so that `x is None` is a comparison of records.                         *)
(***************************************************************************)
EXTENDS Integers, Sequences, FiniteSets, TLC

VARIABLES
    active,     \* the analyzer instance the run drives (they share no state)
    shot,       \* the ShotChartAnalyzer instance: [shot_data]
    player,     \* the PlayerStatsAnalyzer instance
    team,       \* the TeamStatsAnalyzer instance
    fetched,    \* history: the instances on which a fetch_* method was invoked
    last,       \* the latest completed call
    main,       \* example.main: where it is and what it has printed
    file,       \* the scratch file yesterdays_games.txt: None (absent) or its text
    writer,     \* a run of grab_today_games.py (write_to_text)
    reader      \* a run of NBA_API.py

vars == <<active, shot, player, team, fetched, last, main, file, writer, reader>>

\* what the analyzers' methods leave alone
scripts == <<main, file, writer, reader>>

----------------------------------------------------------------------------
(* Bounds *)

\* rows in a table the remote service answers with (SpecLoaded)
MaxRows == 3

\* rows the game finder answers with: one per game and team (SpecFile)
MaxGameRows == 3

\* runs of grab_today_games.py, and runs of NBA_API.py (SpecFile)
MaxRuns == 2

----------------------------------------------------------------------------
(* Python values *)

None == [type |-> "NoneType"]
PyInt(i) == [type |-> "int", v |-> i]
PyStr(s) == [type |-> "str", v |-> s]

\* a quotient a / b * 100 kept exact: the pair (a * 100, b)
Pct(a, b) == [type |-> "float", num |-> a * 100, den |-> b]
Zero == [type |-> "float", num |-> 0, den |-> 1]
SameNumber(p, q) == p.num * q.den = q.num * p.den

\* the format spec .1f of a percentage: tenths, rounded to nearest
Format1f(p) == (2 * 10 * p.num + p.den) \div (2 * p.den)

RECURSIVE AllSeqs(_, _)
AllSeqs(S, n) ==
    IF n = 0 THEN {<<>>}
    ELSE LET shorter == AllSeqs(S, n - 1)
         IN  shorter \cup {Append(s, x) : s \in {t \in shorter : Len(t) = n - 1}, x \in S}

----------------------------------------------------------------------------
(* The static tables of nba_api.stats.static and its lookups.  The tables  *)
(* are excerpts; a pattern matches a full name when the pair is listed in  *)
(* FullNameMatch (the library searches the pattern in the name).  The      *)
(* excerpt of the team table is ordered so that the pattern DEN finds      *)
(* Golden State Warriors first by full name and Denver by abbreviation.    *)

StaticPlayers ==
    << [id |-> 2544,   full_name |-> "LeBron James"],
       [id |-> 201935, full_name |-> "James Harden"],
       [id |-> 201939, full_name |-> "Stephen Curry"] >>

StaticTeams ==
    << [id |-> 1610612744, full_name |-> "Golden State Warriors", abbreviation |-> "GSW"],
       [id |-> 1610612743, full_name |-> "Denver Nuggets",        abbreviation |-> "DEN"],
       [id |-> 1610612747, full_name |-> "Los Angeles Lakers",    abbreviation |-> "LAL"] >>

FullNameMatch ==
    { <<"James", "LeBron James">>, <<"James", "James Harden">>,
      <<"DEN", "Golden State Warriors">>, <<"DEN", "Denver Nuggets">> }

PlayerNames == {"LeBron James", "Stephen Curry", "James", "Not A Real Player"}
TeamNames   == {"Los Angeles Lakers", "LAL", "DEN", "Not A Real Team"}
Seasons     == {"2023-24", "2022-23"}
SeasonTypes == {"Regular Season", "Playoffs"}
\* the season type every caller of the player and team game logs passes
DefaultSeasonTypes == {"Regular Season"}

Matches(pattern, full_name) ==
    pattern = full_name \/ <<pattern, full_name>> \in FullNameMatch

find_players_by_full_name(name) ==
    SelectSeq(StaticPlayers, LAMBDA p : Matches(name, p.full_name))

find_teams_by_full_name(name) ==
    SelectSeq(StaticTeams, LAMBDA t : Matches(name, t.full_name))

\* one team or None
find_team_by_abbreviation(name) ==
    LET found == SelectSeq(StaticTeams, LAMBDA t : t.abbreviation = name)
    IN  IF found = <<>> THEN None ELSE found[1]

----------------------------------------------------------------------------
(* The remote service.  A request names the endpoint and its parameters;   *)
(* the answer is either a failure (the request raises) or the endpoint's   *)
(* list of tables, the first one holding `rows`.                           *)

Request(endpoint, params) == [endpoint |-> endpoint, params |-> params]

DataFrame(endpoint, params, rows) ==
    [type |-> "DataFrame", endpoint |-> endpoint, params |-> params, rows |-> rows]

\* the second table of an answer (league averages, rankings, ...)
OtherFrame(req) == DataFrame(req.endpoint, req.params, <<[OTHER |-> TRUE]>>)

get_data_frames(req, rows) ==
    << DataFrame(req.endpoint, req.params, rows), OtherFrame(req) >>

Fails == [ok |-> FALSE, rows |-> <<>>]
Answers(tables) == {Fails} \cup {[ok |-> TRUE, rows |-> t] : t \in tables}

ShotRows ==
    [SHOT_MADE_FLAG : {0, 1}, SHOT_TYPE : {"2PT Field Goal", "3PT Field Goal"}]
ShotTables == AllSeqs(ShotRows, MaxRows)
\* the answers the service gives in Spec: no shot, or a made three and a missed two
ShotSample ==
    { <<>>,
      << [SHOT_MADE_FLAG |-> 1, SHOT_TYPE |-> "3PT Field Goal"],
         [SHOT_MADE_FLAG |-> 0, SHOT_TYPE |-> "2PT Field Goal"] >> }

----------------------------------------------------------------------------
(* What the analyzers do with a table (pandas) *)

\* the columns of a table that has rows
Columns(rows) == DOMAIN rows[1]

\* frame[col] as a list
Column(rows, col) == [i \in 1..Len(rows) |-> rows[i][col]]

\* mutant: the table is taken in the order it was fetched in
Reversed_not(rows) == rows

\* frame.iloc[::-1].reset_index(drop=True): the last row becomes row 0
Reversed(rows) == [i \in 1..Len(rows) |-> rows[Len(rows) + 1 - i]]

\* the index 0 .. n-1 of a table of n rows
RangeIndex(n) == [i \in 1..n |-> i - 1]

RECURSIVE ColumnSum(_, _)
ColumnSum(rows, col) ==
    IF rows = <<>> THEN 0 ELSE rows[1][col] + ColumnSum(Tail(rows), col)

\* Series.mean() of a column, exact: the pair (sum, count)
Mean(rows, col) == [type |-> "float", num |-> ColumnSum(rows, col), den |-> Len(rows)]

\* Series.cumsum() of a list of numbers
RECURSIVE cumsum(_)
cumsum(xs) ==
    IF xs = <<>> THEN <<>>
    ELSE LET before == cumsum(SubSeq(xs, 1, Len(xs) - 1))
         IN  Append(before, (IF before = <<>> THEN 0 ELSE before[Len(before)]) + xs[Len(xs)])

\* round(2) of a number: hundredths, to the nearest (the means of at most
\* four integers never lie halfway between two hundredths)
Round2(p) == (2 * 100 * p.num + p.den) \div (2 * p.den)

\* frame.nlargest(n, col): the n rows with the largest values, largest first,
\* rows of equal value in the order of the table
RECURSIVE nlargest(_, _, _)
nlargest(rows, n, col) ==
    IF n = 0 \/ rows = <<>> THEN <<>>
    ELSE LET top == CHOOSE i \in 1..Len(rows) :
                       /\ \A j \in 1..Len(rows) : rows[j][col] <= rows[i][col]
                       /\ \A j \in 1..(i - 1) : rows[j][col] < rows[i][col]
             rest == SubSeq(rows, 1, top - 1) \o SubSeq(rows, top + 1, Len(rows))
         IN  <<rows[top]>> \o nlargest(rest, n - 1, col)

----------------------------------------------------------------------------
(* How a method call ends *)

\* `msg` is the text of the exception where a caller tells exceptions of one
\* class apart by it, and None otherwise
Result(self, outcome, exc, ret, calls, fetches) ==
    [self |-> self, outcome |-> outcome, exc |-> exc, msg |-> None, ret |-> ret,
     calls |-> calls, fetches |-> fetches]

Return(self, ret, calls, fetches) == Result(self, "return", None, ret, calls, fetches)
Raise(self, exc, calls, fetches)  == Result(self, "raise", PyStr(exc), None, calls, fetches)
RaiseMsg(self, exc, msg, calls, fetches) ==
    [Raise(self, exc, calls, fetches) EXCEPT !.msg = PyStr(msg)]

----------------------------------------------------------------------------
(* ShotChartAnalyzer *)

ShotChartAnalyzer == "ShotChartAnalyzer"

\* mutant: the constructor starts from an empty table instead of None
ShotChartAnalyzer_init_empty_table ==
    [shot_data |-> DataFrame("ShotChartDetail", <<>>, <<>>)]

ShotChartAnalyzer_init == [shot_data |-> None]

\* mutant: the last match instead of the first
Shot_get_player_id_last_match(player_name) ==
    LET player_dict == find_players_by_full_name(player_name)
    IN  IF player_dict # <<>> THEN PyInt(player_dict[Len(player_dict)].id) ELSE None

Shot_get_player_id(player_name) ==
    LET player_dict == find_players_by_full_name(player_name)
    IN  IF player_dict # <<>> THEN PyInt(player_dict[1].id) ELSE None

Shot_get_team_id(team_name) ==
    LET team_dict == find_teams_by_full_name(team_name)
    IN  IF team_dict # <<>> THEN PyInt(team_dict[1].id) ELSE None

\* mutant: a failed request is sent a second time
fetch_shot_data_retry(self, player_name, season, season_type, remote) ==
    LET player_id == Shot_get_player_id(player_name)
    IN  IF player_id = None
        THEN Raise(self, "ValueError", <<>>, 1)
        ELSE LET shot_chart ==
                     Request("ShotChartDetail",
                             [team_id |-> 0, player_id |-> player_id.v,
                              season |-> season, season_type |-> season_type])
             IN  IF ~remote.ok
                 THEN Raise(self, "RequestException", <<shot_chart, shot_chart>>, 1)
                 ELSE LET new == [self EXCEPT
                                    !.shot_data = get_data_frames(shot_chart, remote.rows)[1]]
                      IN  Return(new, new.shot_data, <<shot_chart>>, 1)

fetch_shot_data(self, player_name, season, season_type, remote) ==
    LET player_id == Shot_get_player_id(player_name)
    IN  IF player_id = None
        THEN Raise(self, "ValueError", <<>>, 1)
        ELSE LET shot_chart ==
                     Request("ShotChartDetail",
                             [team_id |-> 0, player_id |-> player_id.v,
                              season |-> season, season_type |-> season_type])
             IN  IF ~remote.ok
                 THEN Raise(self, "RequestException", <<shot_chart>>, 1)
                 ELSE LET new == [self EXCEPT
                                    !.shot_data = get_data_frames(shot_chart, remote.rows)[1]]
                      IN  Return(new, new.shot_data, <<shot_chart>>, 1)

\* the court elements draw_court(ax, outer_lines) adds to the axis
draw_court(outer_lines) ==
    << "hoop", "backboard", "outer_box", "inner_box", "top_free_throw",
       "bottom_free_throw", "restricted", "corner_three_a", "corner_three_b",
       "three_arc", "center_outer_arc", "center_inner_arc" >>
    \o (IF outer_lines THEN <<"outer_lines">> ELSE <<>>)

\* the figure drawn from the loaded table
ShotFigure(shot_data, player_name, season, season_type, title) ==
    LET made_shots   == SelectSeq(shot_data.rows, LAMBDA r : r.SHOT_MADE_FLAG = 1)
        missed_shots == SelectSeq(shot_data.rows, LAMBDA r : r.SHOT_MADE_FLAG = 0)
        fg_pct == IF Len(shot_data.rows) > 0
                  THEN Pct(Len(made_shots), Len(shot_data.rows)) ELSE Zero
    IN  [type   |-> "Figure",
         court  |-> draw_court(TRUE),
         missed |-> missed_shots,
         made   |-> made_shots,
         source |-> shot_data,
         title  |-> IF title = None
                    THEN [player_name |-> player_name, season |-> season,
                          season_type |-> season_type, fg_tenths |-> Format1f(fg_pct)]
                    ELSE title]

plot_shot_chart(self, player_name, season, season_type, title, remote) ==
    LET f == IF self.shot_data = None
             THEN fetch_shot_data(self, player_name, season, season_type, remote)
             ELSE Return(self, None, <<>>, 0)
    IN  IF f.outcome = "raise"
        THEN f
        ELSE Return(f.self,
                    ShotFigure(f.self.shot_data, player_name, season, season_type, title),
                    f.calls, f.fetches)

\* the dict get_shot_statistics builds from a table that has rows
shot_statistics(rows) ==
    LET total_shots == Len(rows)
        made_shots  == Len(SelectSeq(rows, LAMBDA r : r.SHOT_MADE_FLAG = 1))
        three_pointers == SelectSeq(rows, LAMBDA r : r.SHOT_TYPE = "3PT Field Goal")
        made_3pt == Len(SelectSeq(three_pointers, LAMBDA r : r.SHOT_MADE_FLAG = 1))
        two_pointers == SelectSeq(rows, LAMBDA r : r.SHOT_TYPE = "2PT Field Goal")
        made_2pt == Len(SelectSeq(two_pointers, LAMBDA r : r.SHOT_MADE_FLAG = 1))
        keys == {"total_shots", "made_shots", "missed_shots", "fg_percentage"}
                \cup (IF Len(three_pointers) > 0
                      THEN {"three_pt_attempts", "three_pt_made", "three_pt_percentage"}
                      ELSE {})
                \cup (IF Len(two_pointers) > 0
                      THEN {"two_pt_attempts", "two_pt_made", "two_pt_percentage"}
                      ELSE {})
    IN  [k \in keys |->
            CASE k = "total_shots"   -> PyInt(total_shots)
              [] k = "made_shots"    -> PyInt(made_shots)
              [] k = "missed_shots"  -> PyInt(total_shots - made_shots)
              [] k = "fg_percentage" ->
                    IF total_shots > 0 THEN Pct(made_shots, total_shots) ELSE Zero
              [] k = "three_pt_attempts"   -> PyInt(Len(three_pointers))
              [] k = "three_pt_made"       -> PyInt(made_3pt)
              [] k = "three_pt_percentage" -> Pct(made_3pt, Len(three_pointers))
              [] k = "two_pt_attempts"     -> PyInt(Len(two_pointers))
              [] k = "two_pt_made"         -> PyInt(made_2pt)
              [] k = "two_pt_percentage"   -> Pct(made_2pt, Len(two_pointers))]

\* mutant: the made shots are counted with the flag of the missed ones
get_shot_statistics_flag_swapped(self) ==
    IF self.shot_data = None \/ Len(self.shot_data.rows) = 0
    THEN Return(self, <<>>, <<>>, 0)
    ELSE LET rows == self.shot_data.rows
             made_shots == Len(SelectSeq(rows, LAMBDA r : r.SHOT_MADE_FLAG = 0))
         IN  Return(self,
                    [shot_statistics(rows) EXCEPT
                       !["made_shots"] = PyInt(made_shots),
                       !["missed_shots"] = PyInt(Len(rows) - made_shots),
                       !["fg_percentage"] = Pct(made_shots, Len(rows))],
                    <<>>, 0)

get_shot_statistics(self) ==
    IF self.shot_data = None \/ Len(self.shot_data.rows) = 0
    THEN Return(self, <<>>, <<>>, 0)
    ELSE Return(self, shot_statistics(self.shot_data.rows), <<>>, 0)

----------------------------------------------------------------------------
(* PlayerStatsAnalyzer *)

PlayerStatsAnalyzer == "PlayerStatsAnalyzer"

PerModes == {"PerGame", "Totals"}

InfoTables   == {<<[DISPLAY_FIRST_LAST |-> "player"]>>}
CareerRows   == [SEASON_ID : Seasons, PTS : {25}]
CareerTables == AllSeqs(CareerRows, MaxRows)
CareerSample ==
    { <<>>, << [SEASON_ID |-> "2022-23", PTS |-> 25], [SEASON_ID |-> "2023-24", PTS |-> 25] >> }
\* the percentage columns hold hundredths
GameRows     == [PTS : {10, 30}, AST : {5}, REB : {7}, STL : {1}, BLK : {2},
                 FG_PCT : {50}, FG3_PCT : {40}, FT_PCT : {90}, MIN : {35}]
GameTables   == AllSeqs(GameRows, MaxRows)
GameRow(pts) == [PTS |-> pts, AST |-> 5, REB |-> 7, STL |-> 1, BLK |-> 2,
                 FG_PCT |-> 50, FG3_PCT |-> 40, FT_PCT |-> 90, MIN |-> 35]
\* the latest game first, as the service lists them
GameSample   == { <<>>, << GameRow(30), GameRow(10) >> }

PlayerStatsAnalyzer_init ==
    [player_id |-> None, player_name |-> None, career_stats |-> None, game_log |-> None]

Player_get_player_id(player_name) ==
    LET player_dict == find_players_by_full_name(player_name)
    IN  IF player_dict # <<>> THEN PyInt(player_dict[1].id) ELSE None

fetch_player_info(self, player_name, remote) ==
    LET s1 == [self EXCEPT !.player_id = Player_get_player_id(player_name),
                           !.player_name = PyStr(player_name)]
    IN  IF s1.player_id = None
        THEN Raise(s1, "ValueError", <<>>, 1)
        ELSE LET player_info == Request("CommonPlayerInfo", [player_id |-> s1.player_id.v])
             IN  IF ~remote.ok
                 THEN Raise(s1, "RequestException", <<player_info>>, 1)
                 ELSE Return(s1, get_data_frames(player_info, remote.rows)[1],
                             <<player_info>>, 1)

fetch_career_stats(self, player_name, per_mode, remote) ==
    LET s1 == [self EXCEPT !.player_id = Player_get_player_id(player_name),
                           !.player_name = PyStr(player_name)]
    IN  IF s1.player_id = None
        THEN Raise(s1, "ValueError", <<>>, 1)
        ELSE LET career == Request("PlayerCareerStats",
                                   [player_id |-> s1.player_id.v, per_mode |-> per_mode])
             IN  IF ~remote.ok
                 THEN Raise(s1, "RequestException", <<career>>, 1)
                 ELSE LET new == [s1 EXCEPT
                                    !.career_stats = get_data_frames(career, remote.rows)[1]]
                      IN  Return(new, new.career_stats, <<career>>, 1)

\* mutant: the new rows are appended to the table already held
fetch_game_log_appends(self, player_name, season, season_type, remote) ==
    LET s1 == [self EXCEPT !.player_id = Player_get_player_id(player_name),
                           !.player_name = PyStr(player_name)]
    IN  IF s1.player_id = None
        THEN Raise(s1, "ValueError", <<>>, 1)
        ELSE LET gamelog == Request("PlayerGameLog",
                                    [player_id |-> s1.player_id.v, season |-> season,
                                     season_type |-> season_type])
                 held == IF self.game_log = None THEN <<>> ELSE self.game_log.rows
             IN  IF ~remote.ok
                 THEN Raise(s1, "RequestException", <<gamelog>>, 1)
                 ELSE LET new == [s1 EXCEPT
                                    !.game_log = get_data_frames(gamelog,
                                                                 held \o remote.rows)[1]]
                      IN  Return(new, new.game_log, <<gamelog>>, 1)

\* mutant: the game log is stored in the attribute of the career table
fetch_game_log_into_career_stats(self, player_name, season, season_type, remote) ==
    LET s1 == [self EXCEPT !.player_id = Player_get_player_id(player_name),
                           !.player_name = PyStr(player_name)]
    IN  IF s1.player_id = None
        THEN Raise(s1, "ValueError", <<>>, 1)
        ELSE LET gamelog == Request("PlayerGameLog",
                                    [player_id |-> s1.player_id.v, season |-> season,
                                     season_type |-> season_type])
             IN  IF ~remote.ok
                 THEN Raise(s1, "RequestException", <<gamelog>>, 1)
                 ELSE LET new == [s1 EXCEPT
                                    !.career_stats = get_data_frames(gamelog, remote.rows)[1]]
                      IN  Return(new, new.career_stats, <<gamelog>>, 1)

fetch_game_log(self, player_name, season, season_type, remote) ==
    LET s1 == [self EXCEPT !.player_id = Player_get_player_id(player_name),
                           !.player_name = PyStr(player_name)]
    IN  IF s1.player_id = None
        THEN Raise(s1, "ValueError", <<>>, 1)
        ELSE LET gamelog == Request("PlayerGameLog",
                                    [player_id |-> s1.player_id.v, season |-> season,
                                     season_type |-> season_type])
             IN  IF ~remote.ok
                 THEN Raise(s1, "RequestException", <<gamelog>>, 1)
                 ELSE LET new == [s1 EXCEPT
                                    !.game_log = get_data_frames(gamelog, remote.rows)[1]]
                      IN  Return(new, new.game_log, <<gamelog>>, 1)

\* the lines a game-by-game plot draws: one per requested statistic that
\* is a column, over the game number
StatLines(game_log, stat_columns) ==
    LET shown == SelectSeq(stat_columns, LAMBDA stat : stat \in Columns(game_log))
    IN  [i \in 1..Len(shown) |->
            [label |-> shown[i], x |-> RangeIndex(Len(game_log)),
             y |-> Column(game_log, shown[i])]]

plot_career_progression(self, stat_column) ==
    IF self.career_stats = None \/ Len(self.career_stats.rows) = 0
    THEN RaiseMsg(self, "ValueError",
                  "No career stats loaded. Call fetch_career_stats first.", <<>>, 0)
    ELSE LET rows == self.career_stats.rows
         IN  IF {"SEASON_ID", stat_column} \subseteq Columns(rows)
             THEN Return(self,
                         [type  |-> "Figure",
                          lines |-> << [label |-> stat_column,
                                        x |-> Column(rows, "SEASON_ID"),
                                        y |-> Column(rows, stat_column)] >>,
                          title |-> [name |-> self.player_name,
                                     chart |-> "Career Progression"]],
                         <<>>, 0)
             ELSE Raise(self, "KeyError", <<>>, 0)

plot_season_performance(self, stat_columns) ==
    IF self.game_log = None \/ Len(self.game_log.rows) = 0
    THEN RaiseMsg(self, "ValueError",
                  "No game log loaded. Call fetch_game_log first.", <<>>, 0)
    ELSE LET game_log == Reversed(self.game_log.rows)
         IN  Return(self,
                    [type  |-> "Figure",
                     lines |-> StatLines(game_log, stat_columns),
                     title |-> [name |-> self.player_name,
                                chart |-> "Season Performance"]],
                    <<>>, 0)

\* the statistics get_season_averages looks for, in its order
AverageColumns ==
    <<"PTS", "AST", "REB", "STL", "BLK", "FG_PCT", "FG3_PCT", "FT_PCT", "MIN">>

\* mutant: without a game log the averages raise, as the plots do
get_season_averages_raises(self) ==
    IF self.game_log = None \/ Len(self.game_log.rows) = 0
    THEN RaiseMsg(self, "ValueError",
                  "No game log loaded. Call fetch_game_log first.", <<>>, 0)
    ELSE LET rows == self.game_log.rows
             numeric_cols == Columns(rows)
             keys == {AverageColumns[i] : i \in 1..Len(AverageColumns)} \cap numeric_cols
         IN  Return(self, [col \in keys |-> Mean(rows, col)], <<>>, 0)

get_season_averages(self) ==
    IF self.game_log = None \/ Len(self.game_log.rows) = 0
    THEN Return(self, <<>>, <<>>, 0)
    ELSE LET rows == self.game_log.rows
             numeric_cols == Columns(rows)
             keys == {AverageColumns[i] : i \in 1..Len(AverageColumns)} \cap numeric_cols
         IN  Return(self, [col \in keys |-> Mean(rows, col)], <<>>, 0)

plot_shooting_splits(self) ==
    IF self.game_log = None \/ Len(self.game_log.rows) = 0
    THEN RaiseMsg(self, "ValueError",
                  "No game log loaded. Call fetch_game_log first.", <<>>, 0)
    ELSE LET rows == self.game_log.rows
             Bar(label, col) == [label |-> label, height |-> Mean(rows, col),
                                 text |-> Format1f(Mean(rows, col))]
         IN  IF {"FG_PCT", "FG3_PCT", "FT_PCT"} \subseteq Columns(rows)
             THEN Return(self,
                         [type  |-> "Figure",
                          bars  |-> << Bar("FG%", "FG_PCT"), Bar("3P%", "FG3_PCT"),
                                       Bar("FT%", "FT_PCT") >>,
                          title |-> [name |-> self.player_name,
                                     chart |-> "Shooting Splits"]],
                         <<>>, 0)
             ELSE Raise(self, "KeyError", <<>>, 0)

\* pd.DataFrame(): a table with no row and no column
EmptyFrame == [type |-> "DataFrame", rows |-> <<>>]

\* the statistics of create_stats_summary and the columns they are means of
SummaryStatistics ==
    << <<"PPG", "PTS">>, <<"RPG", "REB">>, <<"APG", "AST">>, <<"SPG", "STL">>,
       <<"BPG", "BLK">>, <<"FG%", "FG_PCT">>, <<"3P%", "FG3_PCT">>, <<"FT%", "FT_PCT">>,
       <<"MPG", "MIN">> >>

\* Value is kept in hundredths, as round(2) leaves it
create_stats_summary(self) ==
    IF self.game_log = None \/ Len(self.game_log.rows) = 0
    THEN Return(self, EmptyFrame, <<>>, 0)
    ELSE LET rows == self.game_log.rows
             needed == {SummaryStatistics[i][2] : i \in 1..Len(SummaryStatistics)}
         IN  IF needed \subseteq Columns(rows)
             THEN Return(self,
                         [type |-> "DataFrame",
                          rows |-> << [Statistic |-> "Games Played",
                                       Value |-> 100 * Len(rows)] >>
                                   \o [i \in 1..Len(SummaryStatistics) |->
                                         [Statistic |-> SummaryStatistics[i][1],
                                          Value |-> Round2(Mean(rows,
                                                               SummaryStatistics[i][2]))]]],
                         <<>>, 0)
             ELSE Raise(self, "KeyError", <<>>, 0)

----------------------------------------------------------------------------
(* TeamStatsAnalyzer *)

TeamStatsAnalyzer == "TeamStatsAnalyzer"

StandingsRows   == [TEAM_NAME : {"Los Angeles Lakers", "Denver Nuggets"}, PTS : {110, 120},
                    AST : {25}, REB : {45}]
StandingsTables == AllSeqs(StandingsRows, MaxRows)
StandingsSample ==
    { <<>>, << [TEAM_NAME |-> "Denver Nuggets", PTS |-> 110, AST |-> 25, REB |-> 45],
               [TEAM_NAME |-> "Los Angeles Lakers", PTS |-> 120, AST |-> 25, REB |-> 45] >> }
\* WL is "W", "L" or empty (null in the service's answer); the percentage
\* columns hold hundredths
TeamGameRows   == [WL : {"W", "L", "null"}, PTS : {100, 120}, FG_PCT : {45}, FG3_PCT : {35},
                   FT_PCT : {80}, REB : {40}, AST : {25}]
TeamGameTables == AllSeqs(TeamGameRows, MaxRows)
TeamGameSample ==
    { <<>>, << [WL |-> "W", PTS |-> 100, FG_PCT |-> 45, FG3_PCT |-> 35, FT_PCT |-> 80,
                REB |-> 40, AST |-> 25],
               [WL |-> "L", PTS |-> 100, FG_PCT |-> 45, FG3_PCT |-> 35, FT_PCT |-> 80,
                REB |-> 40, AST |-> 25] >> }

TeamStatsAnalyzer_init ==
    [team_id |-> None, team_name |-> None, team_stats |-> None, game_log |-> None]

\* mutant: the abbreviation is tried before the full name
Team_get_team_id_abbreviation_first(team_name) ==
    LET by_abbreviation == find_team_by_abbreviation(team_name)
    IN  IF by_abbreviation # None
        THEN PyInt(by_abbreviation.id)
        ELSE LET team_dict == find_teams_by_full_name(team_name)
             IN  IF team_dict # <<>> THEN PyInt(team_dict[1].id) ELSE None

Team_get_team_id(team_name) ==
    LET team_dict == find_teams_by_full_name(team_name)
    IN  IF team_dict # <<>>
        THEN PyInt(team_dict[1].id)
        ELSE LET by_abbreviation == find_team_by_abbreviation(team_name)
             IN  IF by_abbreviation # None THEN PyInt(by_abbreviation.id) ELSE None

fetch_league_standings(self, season, season_type, remote) ==
    LET league_stats == Request("LeagueDashTeamStats",
                                [season |-> season, season_type |-> season_type,
                                 per_mode |-> "PerGame"])
    IN  IF ~remote.ok
        THEN Raise(self, "RequestException", <<league_stats>>, 1)
        ELSE LET new == [self EXCEPT
                           !.team_stats = get_data_frames(league_stats, remote.rows)[1]]
             IN  Return(new, new.team_stats, <<league_stats>>, 1)

\* mutant: the request is sent before the identifier is checked
fetch_team_game_log_checks_late(self, team_name, season, season_type, remote) ==
    LET s1 == [self EXCEPT !.team_id = Team_get_team_id(team_name),
                           !.team_name = PyStr(team_name)]
        gamelog == Request("TeamGameLog",
                           [team_id |-> IF s1.team_id = None THEN 0 ELSE s1.team_id.v,
                            season |-> season, season_type |-> season_type])
    IN  IF ~remote.ok
        THEN Raise(s1, "RequestException", <<gamelog>>, 1)
        ELSE IF s1.team_id = None
             THEN Raise(s1, "ValueError", <<gamelog>>, 1)
             ELSE LET new == [s1 EXCEPT
                                !.game_log = get_data_frames(gamelog, remote.rows)[1]]
                  IN  Return(new, new.game_log, <<gamelog>>, 1)

fetch_team_game_log(self, team_name, season, season_type, remote) ==
    LET s1 == [self EXCEPT !.team_id = Team_get_team_id(team_name),
                           !.team_name = PyStr(team_name)]
    IN  IF s1.team_id = None
        THEN Raise(s1, "ValueError", <<>>, 1)
        ELSE LET gamelog == Request("TeamGameLog",
                                    [team_id |-> s1.team_id.v, season |-> season,
                                     season_type |-> season_type])
             IN  IF ~remote.ok
                 THEN Raise(s1, "RequestException", <<gamelog>>, 1)
                 ELSE LET new == [s1 EXCEPT
                                    !.game_log = get_data_frames(gamelog, remote.rows)[1]]
                      IN  Return(new, new.game_log, <<gamelog>>, 1)

\* the dict get_team_summary builds from a game log that has rows
team_summary(rows) ==
    LET wins   == Len(SelectSeq(rows, LAMBDA r : r.WL = "W"))
        losses == Len(SelectSeq(rows, LAMBDA r : r.WL = "L"))
    IN  [games_played   |-> PyInt(Len(rows)),
         wins           |-> PyInt(wins),
         losses         |-> PyInt(losses),
         win_percentage |-> IF Len(rows) > 0 THEN Pct(wins, Len(rows)) ELSE Zero,
         ppg            |-> Mean(rows, "PTS"),
         opp_ppg        |-> IF "OPP_PTS" \in DOMAIN rows[1]
                            THEN Mean(rows, "OPP_PTS") ELSE Zero,
         fg_pct         |-> Mean(rows, "FG_PCT"),
         fg3_pct        |-> Mean(rows, "FG3_PCT"),
         ft_pct         |-> Mean(rows, "FT_PCT"),
         reb_pg         |-> Mean(rows, "REB"),
         ast_pg         |-> Mean(rows, "AST")]

\* mutant: the losses are the games that are no wins
get_team_summary_losses_are_the_rest(self) ==
    IF self.game_log = None \/ Len(self.game_log.rows) = 0
    THEN Return(self, <<>>, <<>>, 0)
    ELSE LET summary == team_summary(self.game_log.rows)
         IN  Return(self,
                    [summary EXCEPT !.losses = PyInt(summary.games_played.v - summary.wins.v)],
                    <<>>, 0)

get_team_summary(self) ==
    IF self.game_log = None \/ Len(self.game_log.rows) = 0
    THEN Return(self, <<>>, <<>>, 0)
    ELSE Return(self, team_summary(self.game_log.rows), <<>>, 0)

plot_league_leaders(self, stat_column, top_n) ==
    IF self.team_stats = None \/ Len(self.team_stats.rows) = 0
    THEN RaiseMsg(self, "ValueError",
                  "No team stats loaded. Call fetch_league_standings first.", <<>>, 0)
    ELSE LET rows == self.team_stats.rows
         IN  IF {"TEAM_NAME", stat_column} \subseteq Columns(rows)
             THEN LET top_teams == nlargest(rows, top_n, stat_column)
                  IN  Return(self,
                             [type  |-> "Figure",
                              bars  |-> [i \in 1..Len(top_teams) |->
                                           [label |-> top_teams[i].TEAM_NAME,
                                            width |-> top_teams[i][stat_column],
                                            text  |-> 10 * top_teams[i][stat_column]]],
                              title |-> [top_n |-> top_n, stat_column |-> stat_column]],
                             <<>>, 0)
             ELSE Raise(self, "KeyError", <<>>, 0)

plot_team_performance(self, stat_columns) ==
    IF self.game_log = None \/ Len(self.game_log.rows) = 0
    THEN RaiseMsg(self, "ValueError",
                  "No game log loaded. Call fetch_team_game_log first.", <<>>, 0)
    ELSE LET game_log == Reversed(self.game_log.rows)
         IN  Return(self,
                    [type  |-> "Figure",
                     lines |-> StatLines(game_log, stat_columns),
                     title |-> [name |-> self.team_name, chart |-> "Season Performance"]],
                    <<>>, 0)

\* mutant: a game log without rows is plotted
plot_win_loss_record_none_only(self) ==
    IF self.game_log = None
    THEN RaiseMsg(self, "ValueError",
                  "No game log loaded. Call fetch_team_game_log first.", <<>>, 0)
    ELSE LET game_log == Reversed(self.game_log.rows)
             IS_WIN == [i \in 1..Len(game_log) |-> IF game_log[i].WL = "W" THEN 1 ELSE 0]
             CUMULATIVE_WINS   == cumsum(IS_WIN)
             CUMULATIVE_LOSSES == cumsum([i \in 1..Len(game_log) |-> 1 - IS_WIN[i]])
         IN  Return(self,
                    [type  |-> "Figure",
                     lines |-> << [label |-> "Wins", x |-> RangeIndex(Len(game_log)),
                                   y |-> CUMULATIVE_WINS],
                                  [label |-> "Losses", x |-> RangeIndex(Len(game_log)),
                                   y |-> CUMULATIVE_LOSSES] >>,
                     title |-> [name |-> self.team_name, chart |-> "Win/Loss Record"]],
                    <<>>, 0)

plot_win_loss_record(self) ==
    IF self.game_log = None \/ Len(self.game_log.rows) = 0
    THEN RaiseMsg(self, "ValueError",
                  "No game log loaded. Call fetch_team_game_log first.", <<>>, 0)
    ELSE LET game_log == Reversed(self.game_log.rows)
             IS_WIN == [i \in 1..Len(game_log) |-> IF game_log[i].WL = "W" THEN 1 ELSE 0]
             CUMULATIVE_WINS   == cumsum(IS_WIN)
             CUMULATIVE_LOSSES == cumsum([i \in 1..Len(game_log) |-> 1 - IS_WIN[i]])
         IN  Return(self,
                    [type  |-> "Figure",
                     lines |-> << [label |-> "Wins", x |-> RangeIndex(Len(game_log)),
                                   y |-> CUMULATIVE_WINS],
                                  [label |-> "Losses", x |-> RangeIndex(Len(game_log)),
                                   y |-> CUMULATIVE_LOSSES] >>,
                     title |-> [name |-> self.team_name, chart |-> "Win/Loss Record"]],
                    <<>>, 0)

\* mutant: the bars are drawn without the check that a team was found
compare_teams_unchecked(self, team_names, stat_columns) ==
    IF self.team_stats = None \/ Len(self.team_stats.rows) = 0
    THEN RaiseMsg(self, "ValueError",
                  "No team stats loaded. Call fetch_league_standings first.", <<>>, 0)
    ELSE LET names == {team_names[i] : i \in 1..Len(team_names)}
             teams_data == SelectSeq(self.team_stats.rows, LAMBDA r : r.TEAM_NAME \in names)
         IN  IF Len(team_names) = 0
             THEN Raise(self, "ZeroDivisionError", <<>>, 0)
             ELSE LET width == [type |-> "float", num |-> 8, den |-> 10 * Len(team_names)]
                      team_data(name) == SelectSeq(teams_data, LAMBDA r : r.TEAM_NAME = name)
                      drawn == SelectSeq([i \in 1..Len(team_names) |-> i],
                                         LAMBDA i : Len(team_data(team_names[i])) > 0)
                      stats == SelectSeq(stat_columns,
                                         LAMBDA stat : stat \in Columns(teams_data))
                      values(name) == [j \in 1..Len(stats) |-> team_data(name)[1][stats[j]]]
                  IN  IF drawn # <<>> /\ Len(stats) # Len(stat_columns)
                      THEN RaiseMsg(self, "ValueError", "shape mismatch", <<>>, 0)
                      ELSE Return(self,
                                  [type  |-> "Figure",
                                   width |-> width,
                                   bars  |-> [k \in 1..Len(drawn) |->
                                                [label  |-> team_names[drawn[k]],
                                                 offset |-> drawn[k] - 1,
                                                 values |-> values(team_names[drawn[k]])]],
                                   xticklabels |-> stat_columns,
                                   title |-> "Team Comparison"],
                                  <<>>, 0)

\* One bar group per name of team_names that has a row, at the offset of the
\* name's place in team_names.  ax.bar raises ValueError when the values are
\* fewer than the positions (a requested statistic that is no column).
compare_teams(self, team_names, stat_columns) ==
    IF self.team_stats = None \/ Len(self.team_stats.rows) = 0
    THEN RaiseMsg(self, "ValueError",
                  "No team stats loaded. Call fetch_league_standings first.", <<>>, 0)
    ELSE LET names == {team_names[i] : i \in 1..Len(team_names)}
             teams_data == SelectSeq(self.team_stats.rows, LAMBDA r : r.TEAM_NAME \in names)
         IN  IF Len(teams_data) = 0
             THEN RaiseMsg(self, "ValueError", "No teams found with the given names", <<>>, 0)
             ELSE IF Len(team_names) = 0
             THEN Raise(self, "ZeroDivisionError", <<>>, 0)
             ELSE LET width == [type |-> "float", num |-> 8, den |-> 10 * Len(team_names)]
                      team_data(name) == SelectSeq(teams_data, LAMBDA r : r.TEAM_NAME = name)
                      drawn == SelectSeq([i \in 1..Len(team_names) |-> i],
                                         LAMBDA i : Len(team_data(team_names[i])) > 0)
                      stats == SelectSeq(stat_columns,
                                         LAMBDA stat : stat \in Columns(teams_data))
                      values(name) == [j \in 1..Len(stats) |-> team_data(name)[1][stats[j]]]
                  IN  IF drawn # <<>> /\ Len(stats) # Len(stat_columns)
                      THEN RaiseMsg(self, "ValueError", "shape mismatch", <<>>, 0)
                      ELSE Return(self,
                                  [type  |-> "Figure",
                                   width |-> width,
                                   bars  |-> [k \in 1..Len(drawn) |->
                                                [label  |-> team_names[drawn[k]],
                                                 offset |-> drawn[k] - 1,
                                                 values |-> values(team_names[drawn[k]])]],
                                   xticklabels |-> stat_columns,
                                   title |-> "Team Comparison"],
                                  <<>>, 0)

----------------------------------------------------------------------------
(* example.py: main runs three demos; a demo prints its header, constructs *)
(* its analyzer and runs the statements of its try block one after the     *)
(* other.  A statement is the call that can raise together with the prints *)
(* that follow it up to the next such call.                                *)

Line(text) == [text |-> text, e |-> None]

Stmt(line, call, says) ==
    [line |-> line, call |-> call, says |-> [i \in 1..Len(says) |-> Line(says[i])]]

demo_shot_chart ==
    [name |-> "demo_shot_chart", analyzer |-> ShotChartAnalyzer,
     header |-> Line("DEMO: Shot Chart Analysis"),
     try |-> << Stmt(24, "plot_shot_chart", <<>>),
                Stmt(25, "savefig", <<"Shot chart saved", "Shot Statistics:">>),
                Stmt(29, "get_shot_statistics", <<"stats">>),
                Stmt(34, "close", <<>>) >>]

demo_player_stats ==
    [name |-> "demo_player_stats", analyzer |-> PlayerStatsAnalyzer,
     header |-> Line("DEMO: Player Statistics Analysis"),
     try |-> << Stmt(57, "fetch_career_stats", <<"Career stats loaded">>),
                Stmt(61, "plot_career_progression", <<>>),
                Stmt(62, "savefig", <<"Career progression chart saved">>),
                Stmt(64, "close", <<"Fetching season game log...">>),
                Stmt(68, "fetch_game_log", <<"Game log loaded">>),
                Stmt(72, "plot_season_performance", <<>>),
                Stmt(73, "savefig", <<"Season performance chart saved">>),
                Stmt(75, "close", <<>>),
                Stmt(78, "plot_shooting_splits", <<>>),
                Stmt(79, "savefig", <<"Shooting splits chart saved">>),
                Stmt(81, "close", <<"Season Averages:">>),
                Stmt(85, "get_season_averages", <<"averages">>),
                Stmt(90, "create_stats_summary", <<"Stats Summary:", "summary">>) >>]

demo_team_stats ==
    [name |-> "demo_team_stats", analyzer |-> TeamStatsAnalyzer,
     header |-> Line("DEMO: Team Statistics Analysis"),
     try |-> << Stmt(111, "fetch_league_standings", <<"League standings loaded">>),
                Stmt(115, "plot_league_leaders", <<>>),
                Stmt(116, "savefig", <<"League leaders chart saved">>),
                Stmt(118, "close", <<"Analyzing Golden State Warriors...">>),
                Stmt(125, "fetch_team_game_log", <<"Team game log loaded">>),
                Stmt(129, "plot_team_performance", <<>>),
                Stmt(130, "savefig", <<"Team performance chart saved">>),
                Stmt(132, "close", <<>>),
                Stmt(135, "plot_win_loss_record", <<>>),
                Stmt(136, "savefig", <<"Win/loss record chart saved">>),
                Stmt(138, "close", <<>>),
                Stmt(141, "get_team_summary", <<"summary", "Comparing multiple teams...">>),
                Stmt(148, "fetch_league_standings", <<>>),
                Stmt(150, "compare_teams", <<>>),
                Stmt(151, "savefig", <<"Team comparison chart saved">>),
                Stmt(153, "close", <<>>) >>]

\* the demos in the order main calls them
Demos == << demo_shot_chart, demo_player_stats, demo_team_stats >>

\* demo 1..3 is running at statement stmt (0: before its try, one more than
\* its statements: after its try); demo 4 is main after the demos, 5 main
\* returned.  uncaught is the exception that left main.
MainInit ==
    [demo |-> 1, stmt |-> 0, out |-> <<Line("NBA DATA ANALYSIS TOOL - DEMONSTRATION")>>,
     uncaught |-> None]

\* the tables the service may answer a demo's statement with
DemoTables(call) ==
    CASE call = "plot_shot_chart"        -> ShotSample
      [] call = "fetch_career_stats"     -> CareerSample
      [] call = "fetch_game_log"         -> GameSample
      [] call = "fetch_league_standings" -> StandingsSample
      [] call = "fetch_team_game_log"    -> TeamGameSample
      [] OTHER                           -> {}

\* the pyplot calls; they write a file or free a figure, and may raise
PyplotCalls == {"savefig", "close"}

\* The statement at `line` of example.py, run on the demo's analyzer `self`.
DemoCall(call, self, remote, fails) ==
    CASE call = "plot_shot_chart" ->
           plot_shot_chart(self, "LeBron James", "2023-24", "Regular Season", None, remote)
      [] call = "get_shot_statistics" -> get_shot_statistics(self)
      [] call = "fetch_career_stats" ->
           fetch_career_stats(self, "Stephen Curry", "PerGame", remote)
      [] call = "plot_career_progression" -> plot_career_progression(self, "PTS")
      [] call = "fetch_game_log" ->
           fetch_game_log(self, "Stephen Curry", "2023-24", "Regular Season", remote)
      [] call = "plot_season_performance" ->
           plot_season_performance(self, <<"PTS", "AST", "REB">>)
      [] call = "plot_shooting_splits" -> plot_shooting_splits(self)
      [] call = "get_season_averages" -> get_season_averages(self)
      [] call = "create_stats_summary" -> create_stats_summary(self)
      [] call = "fetch_league_standings" ->
           fetch_league_standings(self, "2023-24", "Regular Season", remote)
      [] call = "plot_league_leaders" -> plot_league_leaders(self, "PTS", 10)
      [] call = "fetch_team_game_log" ->
           fetch_team_game_log(self, "Golden State Warriors", "2023-24", "Regular Season",
                               remote)
      [] call = "plot_team_performance" ->
           plot_team_performance(self, <<"PTS", "AST", "REB">>)
      [] call = "plot_win_loss_record" -> plot_win_loss_record(self)
      [] call = "get_team_summary" -> get_team_summary(self)
      [] call = "compare_teams" ->
           compare_teams(self,
                         <<"Golden State Warriors", "Los Angeles Lakers", "Boston Celtics">>,
                         <<"PTS", "AST", "REB">>)
      [] call \in PyplotCalls ->
           IF fails THEN Raise(self, "OSError", <<>>, 0) ELSE Return(self, None, <<>>, 0)

\* mutant: the demo has no handler, the exception leaves the demo and main
try_except_propagates(m, stmt, r) ==
    IF r.outcome = "raise"
    THEN [m EXCEPT !.uncaught = r.exc, !.demo = 5]
    ELSE [m EXCEPT !.stmt = @ + 1, !.out = @ \o stmt.says]

\* try: ... except Exception as e: print(f"Error: {e}") -- where main is after
\* the statement ended as r
try_except(m, stmt, r) ==
    IF r.outcome = "raise"
    THEN [m EXCEPT !.stmt = Len(Demos[m.demo].try) + 1,
                   !.out = Append(@, [text |-> "Error", e |-> r.exc])]
    ELSE [m EXCEPT !.stmt = @ + 1, !.out = @ \o stmt.says]

----------------------------------------------------------------------------
(* The scratch file and the two scripts *)

(* grab_today_games.py writes the ids of yesterday's games to the scratch   *)
(* file and NBA_API.py reads them back.  A text is a list of characters;   *)
(* a game id is a text of digits (an excerpt of the ten digits).           *)

GameIds == { <<"2", "1">>, <<"2", "2">> }
GameFinderRows   == [GAME_ID : GameIds]
GameFinderTables == AllSeqs(GameFinderRows, MaxGameRows)

Whitespace == {" ", "\t", "\n", "\r"}

\* Series.unique(): the values in the order of their first appearance
RECURSIVE unique(_)
unique(xs) ==
    IF xs = <<>> THEN <<>>
    ELSE LET before == unique(SubSeq(xs, 1, Len(xs) - 1))
             x == xs[Len(xs)]
         IN  IF \E i \in 1..Len(before) : before[i] = x THEN before ELSE Append(before, x)

\* mutant: the id of every row is kept
get_yesterdays_games_every_row(remote) ==
    LET gamefinder == Request("LeagueGameFinder",
                              [league_id |-> "00", date_from |-> "yesterday",
                               date_to |-> "yesterday", season_type |-> "Regular Season"])
    IN  IF ~remote.ok
        THEN Raise(None, "RequestException", <<gamefinder>>, 1)
        ELSE LET games_df == get_data_frames(gamefinder, remote.rows)[1]
             IN  Return(None, Column(games_df.rows, "GAME_ID"), <<gamefinder>>, 1)

get_yesterdays_games(remote) ==
    LET gamefinder == Request("LeagueGameFinder",
                              [league_id |-> "00", date_from |-> "yesterday",
                               date_to |-> "yesterday", season_type |-> "Regular Season"])
    IN  IF ~remote.ok
        THEN Raise(None, "RequestException", <<gamefinder>>, 1)
        ELSE LET games_df == get_data_frames(gamefinder, remote.rows)[1]
                 game_ids == unique(Column(games_df.rows, "GAME_ID"))
             IN  Return(None, game_ids, <<gamefinder>>, 1)

\* f"{gid}\n"
IdLine(gid) == gid \o <<"\n">>

\* the lines of a text, each with its line end (the last one may have none)
RECURSIVE readlines(_)
readlines(text) ==
    IF text = <<>> THEN <<>>
    ELSE LET ends == {i \in 1..Len(text) : text[i] = "\n"}
             cut  == IF ends = {} THEN Len(text)
                     ELSE CHOOSE i \in ends : \A j \in ends : i <= j
         IN  <<SubSeq(text, 1, cut)>> \o readlines(SubSeq(text, cut + 1, Len(text)))

\* str.strip(): without the whitespace at both ends
RECURSIVE strip(_)
strip(text) ==
    IF text # <<>> /\ text[1] \in Whitespace THEN strip(Tail(text))
    ELSE IF text # <<>> /\ text[Len(text)] \in Whitespace
         THEN strip(SubSeq(text, 1, Len(text) - 1))
         ELSE text

\* A run of write_to_text: game_ids is what it found, todo the ids its loop
\* has not written yet, buffer the text written but not yet in the file;
\* answer and before are what the service answered and what the file was
\* when the run began.
WriterInit ==
    [pc |-> "idle", runs |-> 0, game_ids |-> <<>>, todo |-> <<>>, buffer |-> <<>>,
     exc |-> None, answer |-> None, before |-> None]

\* mutant: the file is opened before the list is looked at
write_to_text_opens_first(w, f, remote) ==
    LET r == get_yesterdays_games(remote)
        w1 == [w EXCEPT !.runs = @ + 1, !.answer = remote, !.before = f,
                        !.game_ids = <<>>, !.todo = <<>>, !.buffer = <<>>, !.exc = None]
    IN  IF r.outcome = "raise"
        THEN [writer |-> [w1 EXCEPT !.pc = "failed", !.exc = r.exc], file |-> f]
        ELSE IF r.ret = <<>>
             THEN [writer |-> [w1 EXCEPT !.pc = "done"], file |-> <<>>]
             ELSE [writer |-> [w1 EXCEPT !.pc = "writing", !.game_ids = r.ret,
                                         !.todo = r.ret],
                   file |-> <<>>]

\* write_to_text up to open(filename, "w"), which creates the file or empties it
write_to_text(w, f, remote) ==
    LET r == get_yesterdays_games(remote)
        w1 == [w EXCEPT !.runs = @ + 1, !.answer = remote, !.before = f,
                        !.game_ids = <<>>, !.todo = <<>>, !.buffer = <<>>, !.exc = None]
    IN  IF r.outcome = "raise"
        THEN [writer |-> [w1 EXCEPT !.pc = "failed", !.exc = r.exc], file |-> f]
        ELSE IF r.ret = <<>>
             THEN [writer |-> [w1 EXCEPT !.pc = "done"], file |-> f]
             ELSE [writer |-> [w1 EXCEPT !.pc = "writing", !.game_ids = r.ret,
                                         !.todo = r.ret],
                   file |-> <<>>]

\* one turn of the loop: f.write(f"{gid}\n") puts the line in the buffer
f_write(w) ==
    [w EXCEPT !.buffer = @ \o IdLine(Head(w.todo)), !.todo = Tail(@)]

\* A run of NBA_API.py: text is what it has read of the file so far, games
\* its list; found and since are whether the file was there, and which run
\* of the writer was where, when it opened the file.
ReaderInit ==
    [pc |-> "idle", runs |-> 0, text |-> <<>>, games |-> <<>>, exc |-> None,
     found |-> FALSE, since |-> [runs |-> 0, pc |-> "idle"]]

\* mutant: a missing file is read as an empty one
open_r_missing_is_empty(r, f, w) ==
    [r EXCEPT !.runs = @ + 1, !.text = <<>>, !.games = <<>>, !.exc = None,
              !.found = f # None, !.since = [runs |-> w.runs, pc |-> w.pc],
              !.pc = "reading"]

\* games = [] and open("yesterdays_games.txt", "r")
open_r(r, f, w) ==
    LET r1 == [r EXCEPT !.runs = @ + 1, !.text = <<>>, !.games = <<>>, !.exc = None,
                        !.found = f # None, !.since = [runs |-> w.runs, pc |-> w.pc]]
    IN  IF f = None
        THEN [r1 EXCEPT !.pc = "failed", !.exc = PyStr("FileNotFoundError")]
        ELSE [r1 EXCEPT !.pc = "reading"]

\* mutant: a reader that finds no line reports it
read_rejects_empty(r, f) ==
    LET have  == IF f = None THEN <<>> ELSE f
        chunk == SubSeq(have, Len(r.text) + 1, Len(have))
        lines == readlines(r.text)
    IN  IF chunk # <<>>
        THEN [r EXCEPT !.text = @ \o chunk]
        ELSE IF lines = <<>>
             THEN [r EXCEPT !.pc = "failed", !.exc = PyStr("ValueError")]
             ELSE [r EXCEPT !.pc = "done",
                            !.games = [i \in 1..Len(lines) |-> strip(lines[i])]]

\* for line in f: games.append(line.strip()) -- one read of the file: what
\* the file holds past what was read, or, at its end, the list of the lines
read(r, f) ==
    LET have  == IF f = None THEN <<>> ELSE f
        chunk == SubSeq(have, Len(r.text) + 1, Len(have))
        lines == readlines(r.text)
    IN  IF chunk # <<>>
        THEN [r EXCEPT !.text = @ \o chunk]
        ELSE [r EXCEPT !.pc = "done",
                       !.games = [i \in 1..Len(lines) |-> strip(lines[i])]]

----------------------------------------------------------------------------
(* The state machine.  One action is one whole method call on the active   *)
(* analyzer.  The fetch actions take the sets their arguments and the      *)
(* service's answer are drawn from.                                        *)

Analyzers == {ShotChartAnalyzer, PlayerStatsAnalyzer, TeamStatsAnalyzer}

Titles == {None, PyStr("Custom title")}

\* the arguments the plots are called with: the defaults, and a statistic
\* that is no column of any table
StatColumns == {"PTS", "NOT_A_COLUMN"}
StatLists   == {<<"PTS", "AST", "REB">>, <<"PTS", "NOT_A_COLUMN">>}
TopNs       == {1, 10}
TeamLists   ==
    { <<>>, <<"Boston Celtics">>, <<"Boston Celtics", "Los Angeles Lakers">>,
      <<"Golden State Warriors", "Los Angeles Lakers", "Boston Celtics">> }

\* the attributes whose value (not None) the call replaced by another
Replaced(old, new) ==
    IF old = None THEN {} ELSE {f \in DOMAIN old : old[f] # None /\ new[f] # old[f]}

\* What a call shows: `answer` is what the service answered if it was asked,
\* `replaced` the attributes the call overwrote.
Obs(op, args, r, old, remote) ==
    [op |-> op, args |-> args, outcome |-> r.outcome, exc |-> r.exc, msg |-> r.msg,
     ret |-> r.ret, calls |-> r.calls, fetches |-> r.fetches,
     answer |-> IF r.calls = <<>> THEN None ELSE remote,
     replaced |-> Replaced(old, r.self)]

Init ==
    /\ active \in Analyzers
    /\ shot = ShotChartAnalyzer_init
    /\ player = PlayerStatsAnalyzer_init
    /\ team = TeamStatsAnalyzer_init
    /\ fetched = {}
    /\ last = Obs("__init__", <<>>, Return(None, None, <<>>, 0), None, None)
    /\ main = MainInit
    /\ file = None
    /\ writer = WriterInit
    /\ reader = ReaderInit

Noted(r) == IF r.fetches > 0 THEN fetched \cup {active} ELSE fetched

ShotGetPlayerId ==
    /\ active = ShotChartAnalyzer
    /\ \E player_name \in PlayerNames :
         last' = Obs("get_player_id", [player_name |-> player_name],
                     Return(shot, Shot_get_player_id(player_name), <<>>, 0), shot, None)
    /\ UNCHANGED <<active, shot, player, team, fetched>>
    /\ UNCHANGED scripts

ShotGetTeamId ==
    /\ active = ShotChartAnalyzer
    /\ \E team_name \in TeamNames :
         last' = Obs("get_team_id", [team_name |-> team_name],
                     Return(shot, Shot_get_team_id(team_name), <<>>, 0), shot, None)
    /\ UNCHANGED <<active, shot, player, team, fetched>>
    /\ UNCHANGED scripts

FetchShotData(names, seasons, types, tables) ==
    /\ active = ShotChartAnalyzer
    /\ \E player_name \in names, season \in seasons, season_type \in types,
          remote \in Answers(tables) :
         LET r == fetch_shot_data(shot, player_name, season, season_type, remote)
         IN  /\ shot' = r.self
             /\ last' = Obs("fetch_shot_data",
                            [player_name |-> player_name, season |-> season,
                             season_type |-> season_type], r, shot, remote)
             /\ fetched' = Noted(r)
    /\ UNCHANGED <<active, player, team>>
    /\ UNCHANGED scripts

PlotShotChart ==
    /\ active = ShotChartAnalyzer
    /\ \E player_name \in PlayerNames, season \in Seasons, season_type \in SeasonTypes,
          title \in Titles, remote \in Answers(ShotSample) :
         LET r == plot_shot_chart(shot, player_name, season, season_type, title, remote)
         IN  /\ shot' = r.self
             /\ last' = Obs("plot_shot_chart",
                            [player_name |-> player_name, season |-> season,
                             season_type |-> season_type, title |-> title], r, shot, remote)
             /\ fetched' = Noted(r)
    /\ UNCHANGED <<active, player, team>>
    /\ UNCHANGED scripts

GetShotStatistics ==
    /\ active = ShotChartAnalyzer
    /\ LET r == get_shot_statistics(shot)
       IN  /\ shot' = r.self
           /\ last' = Obs("get_shot_statistics", <<>>, r, shot, None)
           /\ fetched' = Noted(r)
    /\ UNCHANGED <<active, player, team>>
    /\ UNCHANGED scripts

PlayerGetPlayerId ==
    /\ active = PlayerStatsAnalyzer
    /\ \E player_name \in PlayerNames :
         last' = Obs("get_player_id", [player_name |-> player_name],
                     Return(player, Player_get_player_id(player_name), <<>>, 0), player, None)
    /\ UNCHANGED <<active, shot, player, team, fetched>>
    /\ UNCHANGED scripts

FetchPlayerInfo ==
    /\ active = PlayerStatsAnalyzer
    /\ \E player_name \in PlayerNames, remote \in Answers(InfoTables) :
         LET r == fetch_player_info(player, player_name, remote)
         IN  /\ player' = r.self
             /\ last' = Obs("fetch_player_info", [player_name |-> player_name], r, player, remote)
             /\ fetched' = Noted(r)
    /\ UNCHANGED <<active, shot, team>>
    /\ UNCHANGED scripts

FetchCareerStats(names, modes, tables) ==
    /\ active = PlayerStatsAnalyzer
    /\ \E player_name \in names, per_mode \in modes, remote \in Answers(tables) :
         LET r == fetch_career_stats(player, player_name, per_mode, remote)
         IN  /\ player' = r.self
             /\ last' = Obs("fetch_career_stats",
                            [player_name |-> player_name, per_mode |-> per_mode], r, player, remote)
             /\ fetched' = Noted(r)
    /\ UNCHANGED <<active, shot, team>>
    /\ UNCHANGED scripts

FetchGameLog(names, seasons, types, tables) ==
    /\ active = PlayerStatsAnalyzer
    /\ \E player_name \in names, season \in seasons, season_type \in types,
          remote \in Answers(tables) :
         LET r == fetch_game_log(player, player_name, season, season_type, remote)
         IN  /\ player' = r.self
             /\ last' = Obs("fetch_game_log",
                            [player_name |-> player_name, season |-> season,
                             season_type |-> season_type], r, player, remote)
             /\ fetched' = Noted(r)
    /\ UNCHANGED <<active, shot, team>>
    /\ UNCHANGED scripts

\* a call on the player analyzer that takes no answer of the service
PlayerCall(op, args, r) ==
    /\ active = PlayerStatsAnalyzer
    /\ player' = r.self
    /\ last' = Obs(op, args, r, player, None)
    /\ fetched' = Noted(r)
    /\ UNCHANGED <<active, shot, team>>
    /\ UNCHANGED scripts

PlotCareerProgression ==
    \E stat_column \in StatColumns :
        PlayerCall("plot_career_progression", [stat_column |-> stat_column],
                   plot_career_progression(player, stat_column))

PlotSeasonPerformance ==
    \E stat_columns \in StatLists :
        PlayerCall("plot_season_performance", [stat_columns |-> stat_columns],
                   plot_season_performance(player, stat_columns))

GetSeasonAverages ==
    PlayerCall("get_season_averages", <<>>, get_season_averages(player))

PlotShootingSplits ==
    PlayerCall("plot_shooting_splits", <<>>, plot_shooting_splits(player))

CreateStatsSummary ==
    PlayerCall("create_stats_summary", <<>>, create_stats_summary(player))

TeamGetTeamId ==
    /\ active = TeamStatsAnalyzer
    /\ \E team_name \in TeamNames :
         last' = Obs("get_team_id", [team_name |-> team_name],
                     Return(team, Team_get_team_id(team_name), <<>>, 0), team, None)
    /\ UNCHANGED <<active, shot, player, team, fetched>>
    /\ UNCHANGED scripts

FetchLeagueStandings(seasons, types, tables) ==
    /\ active = TeamStatsAnalyzer
    /\ \E season \in seasons, season_type \in types, remote \in Answers(tables) :
         LET r == fetch_league_standings(team, season, season_type, remote)
         IN  /\ team' = r.self
             /\ last' = Obs("fetch_league_standings",
                            [season |-> season, season_type |-> season_type], r, team, remote)
             /\ fetched' = Noted(r)
    /\ UNCHANGED <<active, shot, player>>
    /\ UNCHANGED scripts

FetchTeamGameLog(names, seasons, types, tables) ==
    /\ active = TeamStatsAnalyzer
    /\ \E team_name \in names, season \in seasons, season_type \in types,
          remote \in Answers(tables) :
         LET r == fetch_team_game_log(team, team_name, season, season_type, remote)
         IN  /\ team' = r.self
             /\ last' = Obs("fetch_team_game_log",
                            [team_name |-> team_name, season |-> season,
                             season_type |-> season_type], r, team, remote)
             /\ fetched' = Noted(r)
    /\ UNCHANGED <<active, shot, player>>
    /\ UNCHANGED scripts

GetTeamSummary ==
    /\ active = TeamStatsAnalyzer
    /\ LET r == get_team_summary(team)
       IN  /\ team' = r.self
           /\ last' = Obs("get_team_summary", <<>>, r, team, None)
           /\ fetched' = Noted(r)
    /\ UNCHANGED <<active, shot, player>>
    /\ UNCHANGED scripts

\* a call on the team analyzer that takes no answer of the service
TeamCall(op, args, r) ==
    /\ active = TeamStatsAnalyzer
    /\ team' = r.self
    /\ last' = Obs(op, args, r, team, None)
    /\ fetched' = Noted(r)
    /\ UNCHANGED <<active, shot, player>>
    /\ UNCHANGED scripts

PlotLeagueLeaders ==
    \E stat_column \in StatColumns, top_n \in TopNs :
        TeamCall("plot_league_leaders", [stat_column |-> stat_column, top_n |-> top_n],
                 plot_league_leaders(team, stat_column, top_n))

PlotTeamPerformance ==
    \E stat_columns \in StatLists :
        TeamCall("plot_team_performance", [stat_columns |-> stat_columns],
                 plot_team_performance(team, stat_columns))

PlotWinLossRecord ==
    TeamCall("plot_win_loss_record", <<>>, plot_win_loss_record(team))

CompareTeams ==
    \E team_names \in TeamLists, stat_columns \in StatLists :
        TeamCall("compare_teams", [team_names |-> team_names, stat_columns |-> stat_columns],
                 compare_teams(team, team_names, stat_columns))

Next ==
    \/ ShotGetPlayerId
    \/ ShotGetTeamId
    \/ FetchShotData(PlayerNames, Seasons, SeasonTypes, ShotSample)
    \/ PlotShotChart
    \/ GetShotStatistics
    \/ PlayerGetPlayerId
    \/ FetchPlayerInfo
    \/ FetchCareerStats(PlayerNames, PerModes, CareerSample)
    \/ FetchGameLog(PlayerNames, Seasons, DefaultSeasonTypes, GameSample)
    \/ PlotCareerProgression
    \/ PlotSeasonPerformance
    \/ GetSeasonAverages
    \/ PlotShootingSplits
    \/ CreateStatsSummary
    \/ TeamGetTeamId
    \/ FetchLeagueStandings(Seasons, DefaultSeasonTypes, StandingsSample)
    \/ FetchTeamGameLog(TeamNames, Seasons, DefaultSeasonTypes, TeamGameSample)
    \/ GetTeamSummary
    \/ PlotLeagueLeaders
    \/ PlotTeamPerformance
    \/ PlotWinLossRecord
    \/ CompareTeams

Spec == Init /\ [][Next]_vars

(* The summaries and plots over every table of at most MaxRows rows: the   *)
(* analyzer loads one table with the default arguments, then summarises    *)
(* and plots it.                                                           *)

LoadShotData ==
    /\ shot.shot_data = None
    /\ FetchShotData({"LeBron James"}, {"2023-24"}, {"Regular Season"}, ShotTables)

LoadTeamGameLog ==
    /\ team.game_log = None /\ team.team_stats = None
    /\ FetchTeamGameLog({"Los Angeles Lakers"}, {"2023-24"}, {"Regular Season"},
                        TeamGameTables)

LoadGameLog ==
    /\ player.game_log = None
    /\ FetchGameLog({"Stephen Curry"}, {"2023-24"}, {"Regular Season"}, GameTables)

LoadLeagueStandings ==
    /\ team.game_log = None /\ team.team_stats = None
    /\ FetchLeagueStandings({"2023-24"}, {"Regular Season"}, StandingsTables)

NextLoaded ==
    \/ LoadShotData
    \/ GetShotStatistics
    \/ LoadGameLog
    \/ PlotSeasonPerformance
    \/ GetSeasonAverages
    \/ PlotShootingSplits
    \/ CreateStatsSummary
    \/ LoadTeamGameLog
    \/ GetTeamSummary
    \/ PlotTeamPerformance
    \/ PlotWinLossRecord
    \/ LoadLeagueStandings
    \/ PlotLeagueLeaders
    \/ CompareTeams

SpecLoaded == Init /\ [][NextLoaded]_vars

----------------------------------------------------------------------------
(* example.main as a state machine: one action is the header of a demo     *)
(* with the construction of its analyzer, one statement of its try block   *)
(* (with the handler, if it raises), the end of a demo, or the end of      *)
(* main.                                                                   *)

InitDemo == Init /\ active = Demos[1].analyzer

Self(analyzer) ==
    CASE analyzer = ShotChartAnalyzer   -> shot
      [] analyzer = PlayerStatsAnalyzer -> player
      [] analyzer = TeamStatsAnalyzer   -> team

\* the analyzer of the running demo becomes `new`
Assigned(analyzer, new) ==
    /\ shot'   = IF analyzer = ShotChartAnalyzer   THEN new ELSE shot
    /\ player' = IF analyzer = PlayerStatsAnalyzer THEN new ELSE player
    /\ team'   = IF analyzer = TeamStatsAnalyzer   THEN new ELSE team

DemoBegin ==
    /\ main.demo \in 1..Len(Demos) /\ main.stmt = 0
    /\ LET demo == Demos[main.demo]
           new  == CASE demo.analyzer = ShotChartAnalyzer   -> ShotChartAnalyzer_init
                     [] demo.analyzer = PlayerStatsAnalyzer -> PlayerStatsAnalyzer_init
                     [] demo.analyzer = TeamStatsAnalyzer   -> TeamStatsAnalyzer_init
       IN  /\ Assigned(demo.analyzer, new)
           /\ last' = Obs("__init__", <<>>, Return(new, None, <<>>, 0), None, None)
           /\ main' = [main EXCEPT !.stmt = 1, !.out = Append(@, demo.header)]
    /\ UNCHANGED <<active, fetched, file, writer, reader>>

DemoStatement ==
    /\ main.demo \in 1..Len(Demos)
    /\ main.stmt \in 1..Len(Demos[main.demo].try)
    /\ LET demo == Demos[main.demo]
           stmt == demo.try[main.stmt]
           self == Self(demo.analyzer)
       IN  \E remote \in Answers(DemoTables(stmt.call)),
              fails \in (IF stmt.call \in PyplotCalls THEN BOOLEAN ELSE {FALSE}) :
               LET r == DemoCall(stmt.call, self, remote, fails)
               IN  /\ Assigned(demo.analyzer, r.self)
                   /\ last' = Obs(stmt.call, [line |-> stmt.line], r, self, remote)
                   /\ fetched' = Noted(r)
                   /\ main' = try_except(main, stmt, r)
    /\ UNCHANGED <<active, file, writer, reader>>

\* the demo's last print; main goes on with the next demo
DemoEnd ==
    /\ main.demo \in 1..Len(Demos)
    /\ main.stmt = Len(Demos[main.demo].try) + 1
    /\ main' = [main EXCEPT !.demo = @ + 1, !.stmt = 0, !.out = Append(@, Line(""))]
    /\ active' = IF main.demo < Len(Demos) THEN Demos[main.demo + 1].analyzer ELSE active
    /\ UNCHANGED <<shot, player, team, fetched, last, file, writer, reader>>

MainComplete ==
    /\ main.demo = Len(Demos) + 1
    /\ main' = [main EXCEPT !.demo = @ + 1,
                            !.out = @ \o <<Line("DEMONSTRATION COMPLETE"),
                                           Line("Generated files:")>>]
    /\ UNCHANGED <<active, shot, player, team, fetched, last, file, writer, reader>>

NextDemo ==
    \/ DemoBegin
    \/ DemoStatement
    \/ DemoEnd
    \/ MainComplete

SpecDemo == InitDemo /\ [][NextDemo]_vars

\* main is a sequential program: it takes its next step
FairSpecDemo == SpecDemo /\ WF_vars(NextDemo)

----------------------------------------------------------------------------
(* The two scripts as processes on the scratch file.  The writer's steps   *)
(* are the call of write_to_text up to the opening of the file, a turn of  *)
(* its loop, and the end of the with block; the io layer may pass the      *)
(* buffered text on to the file before that (when its buffer is full,      *)
(* whose size is the platform's).  The reader's steps are the opening and  *)
(* one read.  Nothing orders the steps of one script after the other's.    *)

InitFile == Init /\ active = ShotChartAnalyzer

analyzers == <<active, shot, player, team, fetched, last, main>>

WriteToText ==
    /\ writer.pc \in {"idle", "done", "failed"}
    /\ writer.runs < MaxRuns
    /\ \E remote \in Answers(GameFinderTables) :
         LET began == write_to_text(writer, file, remote)
         IN  /\ writer' = began.writer
             /\ file' = began.file
    /\ UNCHANGED <<analyzers, reader>>

WriterWrite ==
    /\ writer.pc = "writing"
    /\ writer.todo # <<>>
    /\ writer' = f_write(writer)
    /\ UNCHANGED <<analyzers, file, reader>>

WriterFlush ==
    /\ writer.pc = "writing"
    /\ writer.buffer # <<>>
    /\ file' = file \o writer.buffer
    /\ writer' = [writer EXCEPT !.buffer = <<>>]
    /\ UNCHANGED <<analyzers, reader>>

WriterClose ==
    /\ writer.pc = "writing"
    /\ writer.todo = <<>>
    /\ file' = file \o writer.buffer
    /\ writer' = [writer EXCEPT !.buffer = <<>>, !.pc = "done"]
    /\ UNCHANGED <<analyzers, reader>>

ReaderOpen ==
    /\ reader.pc \in {"idle", "done", "failed"}
    /\ reader.runs < MaxRuns
    /\ reader' = open_r(reader, file, writer)
    /\ UNCHANGED <<analyzers, file, writer>>

ReaderRead ==
    /\ reader.pc = "reading"
    /\ reader' = read(reader, file)
    /\ UNCHANGED <<analyzers, file, writer>>

NextFile ==
    \/ WriteToText
    \/ WriterWrite
    \/ WriterFlush
    \/ WriterClose
    \/ ReaderOpen
    \/ ReaderRead

SpecFile == InitFile /\ [][NextFile]_vars

----------------------------------------------------------------------------
(* What the claims talk about *)

NameFetchOps ==
    {"fetch_player_info", "fetch_career_stats", "fetch_game_log", "fetch_shot_data",
     "fetch_team_game_log"}
CachingFetchOps ==
    {"fetch_shot_data", "fetch_career_stats", "fetch_game_log", "fetch_league_standings",
     "fetch_team_game_log"}
FetchOps == NameFetchOps \cup CachingFetchOps

\* the identifier the static tables give a name, looked up without the analyzers
PlayerIdOf(name) ==
    LET found == find_players_by_full_name(name)
    IN  IF found = <<>> THEN None ELSE PyInt(found[1].id)
TeamIdOf(name) ==
    LET full == find_teams_by_full_name(name)
        abbr == find_team_by_abbreviation(name)
    IN  IF full # <<>> THEN PyInt(full[1].id)
        ELSE IF abbr # None THEN PyInt(abbr.id) ELSE None
NameResolves(call) ==
    IF call.op = "fetch_team_game_log"
    THEN TeamIdOf(call.args.team_name) # None
    ELSE PlayerIdOf(call.args.player_name) # None

\* the request a fetch with these arguments is to send
RequestOf(call) ==
    CASE call.op = "fetch_shot_data" ->
           Request("ShotChartDetail",
                   [team_id |-> 0, player_id |-> PlayerIdOf(call.args.player_name).v,
                    season |-> call.args.season, season_type |-> call.args.season_type])
      [] call.op = "fetch_career_stats" ->
           Request("PlayerCareerStats",
                   [player_id |-> PlayerIdOf(call.args.player_name).v,
                    per_mode |-> call.args.per_mode])
      [] call.op = "fetch_game_log" ->
           Request("PlayerGameLog",
                   [player_id |-> PlayerIdOf(call.args.player_name).v,
                    season |-> call.args.season, season_type |-> call.args.season_type])
      [] call.op = "fetch_league_standings" ->
           Request("LeagueDashTeamStats",
                   [season |-> call.args.season, season_type |-> call.args.season_type,
                    per_mode |-> "PerGame"])
      [] call.op = "fetch_team_game_log" ->
           Request("TeamGameLog",
                   [team_id |-> TeamIdOf(call.args.team_name).v,
                    season |-> call.args.season, season_type |-> call.args.season_type])

\* the attribute a caching fetch stores its table in
CacheOf(op) ==
    CASE op = "fetch_shot_data"        -> shot.shot_data
      [] op = "fetch_career_stats"     -> player.career_stats
      [] op = "fetch_game_log"         -> player.game_log
      [] op = "fetch_league_standings" -> team.team_stats
      [] op = "fetch_team_game_log"    -> team.game_log
IsFrame(v) == v.type = "DataFrame"
Frames(self) == {f \in DOMAIN self : IsFrame(self[f])}
Count(rows, Test(_)) == Cardinality({i \in 1..Len(rows) : Test(rows[i])})

----------------------------------------------------------------------------
(* C1: a name-taking fetch whose name does not resolve raises ValueError   *)
(* and has sent no request to the remote service.                          *)
C1_UnresolvedNameRaises ==
    (last.op \in NameFetchOps /\ ~NameResolves(last))
        => /\ last.outcome = "raise"
           /\ last.exc = PyStr("ValueError")
           /\ last.calls = <<>>

C1_Witness ==
    /\ last.op = "fetch_team_game_log"
    /\ ~NameResolves(last)
    /\ last.outcome = "raise"
    /\ team.team_name = PyStr("Not A Real Team")

(* C2: get_player_id, on either analyzer, returns the id of the first      *)
(* entry of the full-name lookup, and None, without raising, when the      *)
(* lookup finds nothing.                                                   *)
C2_GetPlayerIdFirstMatch ==
    last.op = "get_player_id"
        => LET found == find_players_by_full_name(last.args.player_name)
           IN  /\ last.outcome = "return"
               /\ found # <<>> => last.ret = PyInt(found[1].id)
               /\ found = <<>> => last.ret = None

\* the lookup of James finds two players, and the first one's id is returned
C2_Witness ==
    /\ last.op = "get_player_id"
    /\ Len(find_players_by_full_name(last.args.player_name)) = 2
    /\ last.ret = PyInt(2544)

(* C3: TeamStatsAnalyzer.get_team_id returns the first full-name match's   *)
(* id if there is one, else the abbreviation match's id if there is one,   *)
(* else None; a full-name match wins over an abbreviation match.           *)
C3_GetTeamIdFullNameFirst ==
    (last.op = "get_team_id" /\ active = TeamStatsAnalyzer)
        => LET full == find_teams_by_full_name(last.args.team_name)
               abbr == find_team_by_abbreviation(last.args.team_name)
           IN  /\ last.outcome = "return"
               /\ full # <<>> => last.ret = PyInt(full[1].id)
               /\ (full = <<>> /\ abbr # None) => last.ret = PyInt(abbr.id)
               /\ (full = <<>> /\ abbr = None) => last.ret = None

\* DEN matches Golden State by full name and is Denver's abbreviation
C3_Witness ==
    /\ last.op = "get_team_id" /\ active = TeamStatsAnalyzer
    /\ find_teams_by_full_name(last.args.team_name) # <<>>
    /\ find_team_by_abbreviation(last.args.team_name) # None
    /\ last.ret # PyInt(find_team_by_abbreviation(last.args.team_name).id)
    /\ last.ret = PyInt(find_teams_by_full_name(last.args.team_name)[1].id)

(* C4: every attribute of an analyzer is None from its construction until  *)
(* a fetch operation is invoked on it.                                     *)
C4_NoneUntilFetch ==
    /\ ShotChartAnalyzer \notin fetched => shot = [shot_data |-> None]
    /\ PlayerStatsAnalyzer \notin fetched
         => player = [player_id |-> None, player_name |-> None,
                      career_stats |-> None, game_log |-> None]
    /\ TeamStatsAnalyzer \notin fetched
         => team = [team_id |-> None, team_name |-> None,
                    team_stats |-> None, game_log |-> None]

\* a method that is no fetch has been called and nothing was fetched yet
C4_Witness ==
    /\ fetched = {}
    /\ last.op \in {"get_shot_statistics", "get_team_summary", "get_player_id"}

(* C5: the shots a call plot_shot_chart(player_name, season, season_type)  *)
(* draws, and the table its FG% is computed from, are those of that        *)
(* player, season and season type, whatever the analyzer held before the   *)
(* call.                                                                   *)
C5_PlotShowsRequestedShots ==
    (last.op = "plot_shot_chart" /\ last.outcome = "return"
         /\ last.ret.made \o last.ret.missed # <<>>)
        => /\ PlayerIdOf(last.args.player_name) # None
           /\ last.ret.source.params =
                 [team_id |-> 0, player_id |-> PlayerIdOf(last.args.player_name).v,
                  season |-> last.args.season, season_type |-> last.args.season_type]

(* C6: after a successful caching fetch the attribute holds exactly the    *)
(* first table of the answer to that call's request, and the call returns  *)
(* it.                                                                     *)
C6_CacheIsLatestAnswer ==
    (last.op \in CachingFetchOps /\ last.outcome = "return")
        => /\ last.answer # None /\ last.answer.ok
           /\ CacheOf(last.op) =
                 DataFrame(RequestOf(last).endpoint, RequestOf(last).params,
                           last.answer.rows)
           /\ last.ret = CacheOf(last.op)

\* a fetch replaced a table by one with other rows
C6_Witness ==
    /\ last.op = "fetch_game_log" /\ last.outcome = "return"
    /\ "game_log" \in last.replaced
    /\ player.game_log.rows = <<>>
    /\ player.career_stats # None

(* C7 as stated: no analyzer holds more than one table at a time.          *)
C7_AtMostOneFrame ==
    /\ Cardinality(Frames(shot)) <= 1
    /\ Cardinality(Frames(player)) <= 1
    /\ Cardinality(Frames(team)) <= 1

(* C7 amended: every table-valued attribute holds None or one table, the   *)
(* one of its own endpoint, so the shot analyzer holds at most one table   *)
(* and the player and team analyzers at most two.                          *)
C7_OneFramePerAttribute ==
    /\ Frames(shot) \subseteq {"shot_data"}
    /\ Frames(player) \subseteq {"career_stats", "game_log"}
    /\ Frames(team) \subseteq {"team_stats", "game_log"}
    /\ IsFrame(shot.shot_data) => shot.shot_data.endpoint = "ShotChartDetail"
    /\ IsFrame(player.career_stats) => player.career_stats.endpoint = "PlayerCareerStats"
    /\ IsFrame(player.game_log) => player.game_log.endpoint = "PlayerGameLog"
    /\ IsFrame(team.team_stats) => team.team_stats.endpoint = "LeagueDashTeamStats"
    /\ IsFrame(team.game_log) => team.game_log.endpoint = "TeamGameLog"

\* both tables of the player analyzer are loaded
C7_Witness ==
    /\ IsFrame(player.career_stats) /\ IsFrame(player.game_log)
    /\ last.op = "fetch_game_log"

(* C8: on a loaded table of n > 0 rows get_shot_statistics returns         *)
(* total_shots = n, made_shots = the rows with SHOT_MADE_FLAG 1,           *)
(* missed_shots = n - made_shots, fg_percentage = made / n * 100, and the  *)
(* three_pt keys (the two_pt keys) exactly when a row is a 3PT (a 2PT)     *)
(* field goal, with made <= attempts.                                      *)
C8_ShotStatistics ==
    (last.op = "get_shot_statistics" /\ IsFrame(shot.shot_data)
         /\ shot.shot_data.rows # <<>>)
        => LET rows  == shot.shot_data.rows
               stats == last.ret
               n     == Len(rows)
               made  == Count(rows, LAMBDA r : r.SHOT_MADE_FLAG = 1)
               has3  == \E i \in 1..n : rows[i].SHOT_TYPE = "3PT Field Goal"
               has2  == \E i \in 1..n : rows[i].SHOT_TYPE = "2PT Field Goal"
               keys3 == {"three_pt_attempts", "three_pt_made", "three_pt_percentage"}
               keys2 == {"two_pt_attempts", "two_pt_made", "two_pt_percentage"}
           IN  /\ last.outcome = "return"
               /\ stats["total_shots"] = PyInt(n)
               /\ stats["made_shots"] = PyInt(made)
               /\ stats["missed_shots"] = PyInt(n - made)
               /\ stats["made_shots"].v + stats["missed_shots"].v = stats["total_shots"].v
               /\ 0 <= stats["made_shots"].v /\ stats["made_shots"].v <= n
               /\ SameNumber(stats["fg_percentage"], Pct(made, n))
               /\ IF has3 THEN keys3 \subseteq DOMAIN stats
                          ELSE keys3 \cap DOMAIN stats = {}
               /\ IF has2 THEN keys2 \subseteq DOMAIN stats
                          ELSE keys2 \cap DOMAIN stats = {}
               /\ has3 => /\ stats["three_pt_made"].v <= stats["three_pt_attempts"].v
                          /\ stats["three_pt_attempts"].v =
                                Count(rows, LAMBDA r : r.SHOT_TYPE = "3PT Field Goal")
               /\ has2 => /\ stats["two_pt_made"].v <= stats["two_pt_attempts"].v
                          /\ stats["two_pt_attempts"].v =
                                Count(rows, LAMBDA r : r.SHOT_TYPE = "2PT Field Goal")

\* three shots, threes only, two of them made
C8_Witness ==
    /\ last.op = "get_shot_statistics"
    /\ IsFrame(shot.shot_data) /\ Len(shot.shot_data.rows) = 3
    /\ "three_pt_made" \in DOMAIN last.ret
    /\ "two_pt_made" \notin DOMAIN last.ret
    /\ last.ret["made_shots"] = PyInt(2)
    /\ last.ret["missed_shots"] = PyInt(1)

(* C9: get_team_summary reports games_played = the rows of the game log,   *)
(* wins = the rows with WL = W, losses = the rows with WL = L and          *)
(* win_percentage = wins / games_played * 100, and raises nothing; on a    *)
(* log with another WL value wins + losses < games_played.                 *)
C9_TeamSummaryCounts ==
    (last.op = "get_team_summary" /\ IsFrame(team.game_log) /\ team.game_log.rows # <<>>)
        => LET rows    == team.game_log.rows
               summary == last.ret
               n       == Len(rows)
               wins    == Count(rows, LAMBDA r : r.WL = "W")
               losses  == Count(rows, LAMBDA r : r.WL = "L")
           IN  /\ last.outcome = "return"
               /\ summary.games_played = PyInt(n)
               /\ summary.wins = PyInt(wins)
               /\ summary.losses = PyInt(losses)
               /\ SameNumber(summary.win_percentage, Pct(wins, n))
               /\ (\E i \in 1..n : rows[i].WL \notin {"W", "L"})
                     => summary.wins.v + summary.losses.v < summary.games_played.v

\* a win, a loss and a game with neither
C9_Witness ==
    /\ last.op = "get_team_summary" /\ last.outcome = "return"
    /\ IsFrame(team.game_log)
    /\ \E i \in 1..Len(team.game_log.rows) : team.game_log.rows[i].WL = "null"
    /\ last.ret.wins = PyInt(1) /\ last.ret.losses = PyInt(1)
    /\ last.ret.games_played = PyInt(3)

(* C10: a fetch sends at most one request; when the service fails the      *)
(* call raises that failure and every cached table is what it was before   *)
(* the call.                                                               *)
C10_NoRetryCacheKept ==
    [][ last'.op \in FetchOps
          => /\ Len(last'.calls) <= 1
             /\ last'.answer = Fails
                  => /\ last'.outcome = "raise"
                     /\ last'.exc = PyStr("RequestException")
                     /\ shot'.shot_data = shot.shot_data
                     /\ player'.career_stats = player.career_stats
                     /\ player'.game_log = player.game_log
                     /\ team'.team_stats = team.team_stats
                     /\ team'.game_log = team.game_log ]_vars

\* the service failed while a table was cached, and the table is still there
C10_Witness ==
    /\ last.op = "fetch_team_game_log"
    /\ last.answer = Fails /\ last.outcome = "raise"
    /\ IsFrame(team.game_log) /\ team.game_log.rows # <<>>
    /\ "team_name" \in last.replaced

(* C11: main runs demo_shot_chart, demo_player_stats, demo_team_stats in   *)
(* this order; a statement of a demo that raises is caught by the demo's   *)
(* handler, which prints the error; the rest of that demo's try block is   *)
(* skipped, the later demos still run, no exception leaves main, and main  *)
(* always reaches DEMONSTRATION COMPLETE.                                  *)
DemoHeaders == [d \in 1..Len(Demos) |-> Demos[d].header]
IsError(l) == l.text = "Error"
C11_MainState ==
    LET headers == SelectSeq(main.out, LAMBDA l : \E d \in 1..Len(Demos) : l = DemoHeaders[d])
        started == IF main.demo > Len(Demos) THEN Len(Demos)
                   ELSE IF main.stmt = 0 THEN main.demo - 1 ELSE main.demo
    IN  /\ main.uncaught = None
        /\ headers = SubSeq(DemoHeaders, 1, started)
        /\ \A i \in 1..Len(main.out) :
              IsError(main.out[i])
                  => /\ main.out[i].e # None
                     /\ i < Len(main.out) => main.out[i + 1] = Line("")
        /\ (last.outcome = "raise" /\ main.demo <= Len(Demos) /\ main.stmt > 0)
              => /\ main.stmt = Len(Demos[main.demo].try) + 1
                 /\ main.out[Len(main.out)] = [text |-> "Error", e |-> last.exc]
        /\ main.demo = Len(Demos) + 2
              => main.out[Len(main.out) - 1] = Line("DEMONSTRATION COMPLETE")
C11_DemosIsolated ==
    /\ []C11_MainState
    /\ <>(main.demo = Len(Demos) + 2)

\* main returned after the first demo failed at its first statement, the
\* second in the middle and the third ran to its end
C11_Witness ==
    /\ main.demo = Len(Demos) + 2
    /\ Len(SelectSeq(main.out, IsError)) = 2
    /\ \E i \in 1..Len(main.out) :
          /\ main.out[i] = DemoHeaders[1]
          /\ IsError(main.out[i + 1])
    /\ \E i, j, k \in 1..Len(main.out) :
          /\ i < j /\ j < k
          /\ main.out[i] = Line("Game log loaded")
          /\ IsError(main.out[j])
          /\ main.out[k] = Line("Team comparison chart saved")

(* C12: when write_to_text found a non-empty list of game ids and has      *)
(* completed, the file holds exactly those ids, one per line and nothing   *)
(* else, each id of the answer once, in the order of first appearance;     *)
(* and a reader that runs after that obtains exactly that list.            *)
AnswerIds == Column(writer.answer.rows, "GAME_ID")
FirstRow(gid) == CHOOSE i \in 1..Len(AnswerIds) :
                    AnswerIds[i] = gid /\ \A j \in 1..(i - 1) : AnswerIds[j] # gid
ReaderRanAfterWriter ==
    /\ reader.pc = "done" /\ writer.pc = "done"
    /\ reader.since = [runs |-> writer.runs, pc |-> "done"]
C12_RoundTrip ==
    (writer.pc = "done" /\ writer.game_ids # <<>>)
        => LET ids == writer.game_ids
           IN  /\ file # None
               /\ readlines(file) = [i \in 1..Len(ids) |-> ids[i] \o <<"\n">>]
               /\ {ids[i] : i \in 1..Len(ids)} = {AnswerIds[i] : i \in 1..Len(AnswerIds)}
               /\ \A i, j \in 1..Len(ids) :
                     i < j => ids[i] # ids[j] /\ FirstRow(ids[i]) < FirstRow(ids[j])
               /\ ReaderRanAfterWriter => reader.games = ids

\* three rows of two games; the reader has the two ids, the later game first
C12_Witness ==
    /\ ReaderRanAfterWriter
    /\ Len(AnswerIds) = 3
    /\ writer.game_ids = << <<"2", "2">>, <<"2", "1">> >>
    /\ reader.games = writer.game_ids

(* C13: nothing guards the file: a reader that runs while write_to_text    *)
(* is writing finds the file, ends without an error and keeps whatever     *)
(* lines it read, which can be neither the list the file held before nor   *)
(* the new list.                                                           *)
ReaderOverlapsWriter ==
    /\ reader.pc = "done"
    /\ reader.since.pc = "writing" \/ reader.since.runs # writer.runs
C13_TornReadUndetected ==
    /\ reader.pc = "failed" => ~reader.found
    /\ reader.pc = "done"
         => /\ reader.exc = None
            /\ LET lines == readlines(reader.text)
               IN  reader.games = [i \in 1..Len(lines) |-> strip(lines[i])]

\* the file held one id, the writer has two new ones, the reader has none
C13_Witness ==
    /\ ReaderOverlapsWriter
    /\ writer.before # None /\ Len(readlines(writer.before)) = 1
    /\ Len(writer.game_ids) = 2
    /\ reader.games = <<>>
    /\ reader.exc = None

(* C14: a reader that does not find the file fails at open with            *)
(* FileNotFoundError and produces no list; it does not go on with an       *)
(* empty one.                                                              *)
C14_MissingFileFails ==
    (reader.runs > 0 /\ ~reader.found)
        => /\ reader.pc = "failed"
           /\ reader.exc = PyStr("FileNotFoundError")
           /\ reader.text = <<>>

\* the writer ran and found no game, so the file was never created
C14_Witness ==
    /\ reader.pc = "failed" /\ ~reader.found
    /\ reader.since = [runs |-> 1, pc |-> "done"]
    /\ writer.game_ids = <<>>
    /\ file = None

(* C15: a run of write_to_text that finds no game leaves the file as it    *)
(* was, absent or with the text of an earlier run, which a later reader    *)
(* then obtains; the file changes only in a run that found games.          *)
C15_NoGamesNothingWritten ==
    [][ /\ file' # file => writer'.game_ids # <<>>
        /\ (writer'.pc = "done" /\ writer'.game_ids = <<>>)
             => /\ file' = writer'.before
                /\ (reader'.pc = "done" /\ reader'.since = [runs |-> writer'.runs, pc |-> "done"])
                     => LET lines == readlines(writer'.before)
                        IN  reader'.games = [i \in 1..Len(lines) |-> strip(lines[i])] ]_vars

\* the second run found no game; the reader has the ids of the first run
C15_Witness ==
    /\ writer.pc = "done" /\ writer.runs = 2 /\ writer.game_ids = <<>>
    /\ writer.answer.ok
    /\ ReaderRanAfterWriter
    /\ Len(reader.games) = 2

(* C16: a plot that reads a cached table (all but plot_shot_chart) sends   *)
(* no request; when the table it needs is None or has no rows it raises    *)
(* ValueError with the message that names the fetch to call first, and it  *)
(* goes on to draw only when the table has rows.                           *)
PlotOps ==
    {"plot_career_progression", "plot_season_performance", "plot_shooting_splits",
     "plot_league_leaders", "plot_team_performance", "plot_win_loss_record", "compare_teams"}
NeededCache(op) ==
    CASE op = "plot_career_progression" -> player.career_stats
      [] op \in {"plot_season_performance", "plot_shooting_splits"} -> player.game_log
      [] op \in {"plot_league_leaders", "compare_teams"} -> team.team_stats
      [] op \in {"plot_team_performance", "plot_win_loss_record"} -> team.game_log
FetchFirst(op) ==
    CASE op = "plot_career_progression" ->
           PyStr("No career stats loaded. Call fetch_career_stats first.")
      [] op \in {"plot_season_performance", "plot_shooting_splits"} ->
           PyStr("No game log loaded. Call fetch_game_log first.")
      [] op \in {"plot_league_leaders", "compare_teams"} ->
           PyStr("No team stats loaded. Call fetch_league_standings first.")
      [] op \in {"plot_team_performance", "plot_win_loss_record"} ->
           PyStr("No game log loaded. Call fetch_team_game_log first.")
IsEmpty(cache) == cache = None \/ Len(cache.rows) = 0
C16_PlotNeedsLoadedTable ==
    last.op \in PlotOps
        => /\ last.calls = <<>> /\ last.fetches = 0
           /\ last.replaced = {}
           /\ IF IsEmpty(NeededCache(last.op))
              THEN /\ last.outcome = "raise"
                   /\ last.exc = PyStr("ValueError")
                   /\ last.msg = FetchFirst(last.op)
              ELSE last.msg # FetchFirst(last.op)

\* the standings were fetched and have no row
C16_Witness ==
    /\ last.op = "compare_teams" /\ last.outcome = "raise"
    /\ last.msg = FetchFirst("compare_teams")
    /\ IsFrame(team.team_stats) /\ team.team_stats.rows = <<>>

(* C17: get_shot_statistics, get_season_averages and get_team_summary      *)
(* return an empty dict, and create_stats_summary an empty table, when the *)
(* table they read is None or has no rows; they raise nothing, and no      *)
(* number they return is a quotient by zero.                               *)
SummaryOps ==
    {"get_shot_statistics", "get_season_averages", "get_team_summary",
     "create_stats_summary"}
SummaryCache(op) ==
    CASE op = "get_shot_statistics" -> shot.shot_data
      [] op \in {"get_season_averages", "create_stats_summary"} -> player.game_log
      [] op = "get_team_summary" -> team.game_log
C17_SummaryOfNothingIsEmpty ==
    last.op \in SummaryOps
        => /\ last.outcome = "return" /\ last.exc = None
           /\ last.calls = <<>>
           /\ IF last.op = "create_stats_summary"
              THEN IsEmpty(SummaryCache(last.op)) <=> last.ret = [type |-> "DataFrame", rows |-> <<>>]
              ELSE /\ IsEmpty(SummaryCache(last.op)) <=> last.ret = <<>>
                   /\ \A k \in DOMAIN last.ret :
                         last.ret[k].type = "float" => last.ret[k].den > 0

\* the game log was fetched and has no row
C17_Witness ==
    /\ last.op = "get_season_averages" /\ last.ret = <<>>
    /\ IsFrame(player.game_log) /\ player.game_log.rows = <<>>

(* C18: in the game-by-game plots game number k (from 0) is row n-1-k of   *)
(* the cached game log of n rows; in plot_win_loss_record the cumulative   *)
(* wins and losses count the W and the other games among the games 0..k,   *)
(* never decrease, and sum to k+1.                                         *)
GameLogOf(op) ==
    IF op = "plot_season_performance" THEN player.game_log.rows ELSE team.game_log.rows
C18_GamesInChronologicalOrder ==
    (last.op \in {"plot_season_performance", "plot_team_performance", "plot_win_loss_record"}
         /\ last.outcome = "return")
        => LET log   == GameLogOf(last.op)
               n     == Len(log)
               lines == last.ret.lines
               \* row r (from 0) of the cached log
               Row(r) == log[r + 1]
           IN  /\ \A i \in 1..Len(lines) : lines[i].x = [k \in 1..n |-> k - 1]
               /\ last.op # "plot_win_loss_record"
                    => \A i \in 1..Len(lines) : \A k \in 0..(n - 1) :
                          lines[i].y[k + 1] = Row(n - 1 - k)[lines[i].label]
               /\ last.op = "plot_win_loss_record"
                    => LET wins   == lines[1].y
                           losses == lines[2].y
                       IN  /\ lines[1].label = "Wins" /\ lines[2].label = "Losses"
                           /\ \A k \in 0..(n - 1) :
                                 /\ wins[k + 1] =
                                       Cardinality({j \in 0..k : Row(n - 1 - j).WL = "W"})
                                 /\ wins[k + 1] + losses[k + 1] = k + 1
                                 /\ k > 0 => /\ wins[k] <= wins[k + 1]
                                             /\ losses[k] <= losses[k + 1]

\* the latest game was lost, the one before has no result, the first was won
C18_Witness ==
    /\ last.op = "plot_win_loss_record" /\ last.outcome = "return"
    /\ [i \in 1..Len(team.game_log.rows) |-> team.game_log.rows[i].WL] = <<"L", "null", "W">>
    /\ last.ret.lines[1].y = <<1, 1, 1>>
    /\ last.ret.lines[2].y = <<0, 1, 2>>

(* C19: with standings loaded, compare_teams raises ValueError (No teams   *)
(* found with the given names) whenever no name of team_names is a team    *)
(* of the standings, an empty team_names included, so the bar width is     *)
(* never 0.8 / 0; names that are not found next to names that are get no   *)
(* bars and cause no error.                                                *)
C19_CompareTeamsNeedsAMatch ==
    (last.op = "compare_teams" /\ ~IsEmpty(team.team_stats))
        => LET team_names == last.args.team_names
               rows  == team.team_stats.rows
               Found(name) == \E i \in 1..Len(rows) : rows[i].TEAM_NAME = name
               found == SelectSeq(team_names, Found)
               asked == {last.args.stat_columns[i] : i \in 1..Len(last.args.stat_columns)}
           IN  /\ last.exc # PyStr("ZeroDivisionError")
               /\ found = <<>>
                    <=> /\ last.outcome = "raise" /\ last.exc = PyStr("ValueError")
                        /\ last.msg = PyStr("No teams found with the given names")
               /\ (found # <<>> /\ asked \subseteq DOMAIN rows[1])
                    => /\ last.outcome = "return"
                       /\ [k \in 1..Len(last.ret.bars) |-> last.ret.bars[k].label] = found
                       /\ last.ret.width.num * Len(team_names) * 10 = 8 * last.ret.width.den
                       /\ last.ret.width.den > 0

\* of two names the second is in the standings: one group of bars, at its place
C19_Witness ==
    /\ last.op = "compare_teams" /\ last.outcome = "return"
    /\ last.args.team_names = <<"Boston Celtics", "Los Angeles Lakers">>
    /\ Len(last.ret.bars) = 1
    /\ last.ret.bars[1].label = "Los Angeles Lakers" /\ last.ret.bars[1].offset = 1

(* C20: a fetch that raises ValueError because its name does not resolve   *)
(* leaves every attribute of the analyzer as it was before the call        *)
(* (stated for an analyzer that holds a table when the call is made).      *)
C20_FailedFetchChangesNothing ==
    [][ (last'.op \in NameFetchOps /\ last'.outcome = "raise"
            /\ last'.exc = PyStr("ValueError")
            /\ Frames(shot) \cup Frames(player) \cup Frames(team) # {})
          => /\ shot' = shot
             /\ player' = player
             /\ team' = team ]_vars

\* the player (team) a cached table was requested for
HeldFor(frame) ==
    IF "team_id" \in DOMAIN frame.params
    THEN PyInt(frame.params.team_id)
    ELSE PyInt(frame.params.player_id)

\* the name and identifier of the analyzer denote the one the table is of
Identifies(name, id, frame, IdOf(_)) ==
    /\ name # None
    /\ IdOf(name.v) = HeldFor(frame)
    /\ id = HeldFor(frame)

(* C21: after any sequence of calls, the name and identifier the plot      *)
(* titles use denote the player (team) of every cached table: career_stats *)
(* and game_log of the player analyzer are tables of player_name and       *)
(* player_id, game_log of the team analyzer is a table of team_name and    *)
(* team_id.                                                                *)
C21_NameIdentifiesHeldTables ==
    /\ player.career_stats # None
         => Identifies(player.player_name, player.player_id, player.career_stats, PlayerIdOf)
    /\ player.game_log # None
         => Identifies(player.player_name, player.player_id, player.game_log, PlayerIdOf)
    /\ team.game_log # None
         => Identifies(team.team_name, team.team_id, team.game_log, TeamIdOf)

====
